---- MODULE Spec2Model ----
(***************************************************************************)
(* Model of the network connection inventory engine of MyBlogApp:          *)
(*   - js/syslib_ports.js  (src/unnamed/part_001): buildPidMapWindows,      *)
(*     scanPorts, splitHostPort, driven by the GET /scan SSE endpoint of    *)
(*     server.js;                                                           *)
(*   - lib/collector.js, lib/windows.js, lib/owners.js, lib/sysExec.js,     *)
(*     lib/parsers.js: collectConnections, getRawOSOutput, the resolvers.   *)
(* Text is modelled as a sequence of one-character strings, so that line    *)
(* reassembly, trimming, field splitting and number parsing are computed    *)
(* the way the JavaScript code computes them.                               *)
(***************************************************************************)
EXTENDS Integers, Sequences, FiniteSets, TLC

(***************************************************************************)
(* Bounds of the model.                                                     *)
(***************************************************************************)
\* longest chunk one 'data' event delivers
MaxChunk == 20
\* number of lines of the long netstat text (crosses the progress period)
LongLines == 26
\* number of 'data' events the error stream of netstat delivers
MaxStderr == 1

(***************************************************************************)
(* JavaScript values: a number, NaN or null.                                *)
(***************************************************************************)
NaN == [k |-> "nan", v |-> 0]
Null == [k |-> "null", v |-> 0]
Num(n) == [k |-> "num", v |-> n]
IsFinite(x) == x.k = "num"
IsNaN(x) == x.k = "nan"

Max(a, b) == IF a >= b THEN a ELSE b
Min(a, b) == IF a <= b THEN a ELSE b

(***************************************************************************)
(* Characters and strings.                                                  *)
(***************************************************************************)
LowerS == <<"a","b","c","d","e","f","g","h","i","j","k","l","m",
            "n","o","p","q","r","s","t","u","v","w","x","y","z">>
UpperS == <<"A","B","C","D","E","F","G","H","I","J","K","L","M",
            "N","O","P","Q","R","S","T","U","V","W","X","Y","Z">>

Front(s) == SubSeq(s, 1, Len(s) - 1)
Last(s) == s[Len(s)]

\* \s of a JavaScript regular expression, on the characters of the model
IsWs(c) == c \in {" ", "\t", "\r", "\n"}
IsDigit(c) == c \in {"0","1","2","3","4","5","6","7","8","9"}
DigitVal(c) ==
    CASE c = "0" -> 0 [] c = "1" -> 1 [] c = "2" -> 2 [] c = "3" -> 3
      [] c = "4" -> 4 [] c = "5" -> 5 [] c = "6" -> 6 [] c = "7" -> 7
      [] c = "8" -> 8 [] c = "9" -> 9

ToUpperC(c) ==
    IF \E i \in 1..26 : LowerS[i] = c
    THEN UpperS[CHOOSE i \in 1..26 : LowerS[i] = c]
    ELSE IF c = "é" THEN "É" ELSE c
\* String.prototype.toUpperCase
RECURSIVE ToUpper(_)
ToUpper(s) == IF s = <<>> THEN <<>>
              ELSE Append(ToUpper(Front(s)), ToUpperC(s[Len(s)]))

AllDigits(s) == \A i \in 1..Len(s) : IsDigit(s[i])

RECURSIVE DecVal(_)
DecVal(s) == IF s = <<>> THEN 0
             ELSE 10 * DecVal(SubSeq(s, 1, Len(s) - 1)) + DigitVal(s[Len(s)])

\* String.prototype.trimStart, trimEnd and trim
TrimStart(s) ==
    IF \A i \in 1..Len(s) : IsWs(s[i]) THEN <<>>
    ELSE SubSeq(s, CHOOSE i \in 1..Len(s) :
                      ~IsWs(s[i]) /\ \A j \in 1..(i-1) : IsWs(s[j]), Len(s))
TrimEnd(s) ==
    IF \A i \in 1..Len(s) : IsWs(s[i]) THEN <<>>
    ELSE SubSeq(s, 1, CHOOSE i \in 1..Len(s) :
                      ~IsWs(s[i]) /\ \A j \in (i+1)..Len(s) : IsWs(s[j]))
Trim(s) == TrimEnd(TrimStart(s))

\* Number(s) for a string without inner white space: '' is 0, an optionally
\* signed decimal numeral is its value, anything else the model's texts
\* contain ('*', letters, a lone sign) is NaN.
ToNumber(s0) ==
    LET s == Trim(s0) IN
    IF s = <<>> THEN Num(0)
    ELSE IF AllDigits(s) THEN Num(DecVal(s))
    ELSE IF Head(s) \in {"+", "-"} /\ Len(s) > 1 /\ AllDigits(Tail(s))
         THEN Num(IF Head(s) = "-" THEN 0 - DecVal(Tail(s)) ELSE DecVal(Tail(s)))
    ELSE NaN

RECURSIVE DigitPrefix(_)
DigitPrefix(s) == IF s # <<>> /\ IsDigit(Head(s))
                  THEN <<Head(s)>> \o DigitPrefix(Tail(s)) ELSE <<>>
\* parseInt(s, 10): leading white space, optional sign, longest digit prefix
ParseInt(s0) ==
    LET s == TrimStart(s0)
        neg == s # <<>> /\ Head(s) = "-"
        body == IF s # <<>> /\ Head(s) \in {"+", "-"} THEN Tail(s) ELSE s
        ds == DigitPrefix(body)
    IN IF ds = <<>> THEN NaN
       ELSE Num(IF neg THEN 0 - DecVal(ds) ELSE DecVal(ds))

\* the index of the first character of s at or after from that satisfies
\* Test, or 0
FirstFrom(s, from, Test(_)) ==
    IF \E i \in from..Len(s) : Test(s[i])
    THEN CHOOSE i \in from..Len(s) :
            Test(s[i]) /\ \A j \in from..(i-1) : ~Test(s[j])
    ELSE 0

\* s.split(/\r?\n/): at least one element, the last one is the text after
\* the last newline
RECURSIVE SplitLinesFrom(_, _)
SplitLinesFrom(s, from) ==
    LET e == FirstFrom(s, from, LAMBDA c : c = "\n") IN
    IF e = 0 THEN <<SubSeq(s, from, Len(s))>>
    ELSE <<SubSeq(s, from, IF e > from /\ s[e-1] = "\r" THEN e - 2 ELSE e - 1)>>
         \o SplitLinesFrom(s, e + 1)
SplitLines(s) == SplitLinesFrom(s, 1)

\* s.split(/\s+/): every maximal run of white space is one separator
RECURSIVE SplitWsFrom(_, _)
SplitWsFrom(s, from) ==
    LET e == FirstFrom(s, from, IsWs) IN
    IF e = 0 THEN <<SubSeq(s, from, Len(s))>>
    ELSE LET n == FirstFrom(s, e, LAMBDA c : ~IsWs(c)) IN
         <<SubSeq(s, from, e - 1)>>
         \o (IF n = 0 THEN << <<>> >> ELSE SplitWsFrom(s, n))
SplitWs(s) == SplitWsFrom(s, 1)

LastIndexOf(s, c) ==
    IF \E i \in 1..Len(s) : s[i] = c
    THEN CHOOSE i \in 1..Len(s) : s[i] = c /\ \A j \in (i+1)..Len(s) : s[j] # c
    ELSE 0

\* rank of a letter in a collation that orders A..Z, case-insensitively
Rank(c) == IF \E i \in 1..26 : UpperS[i] = ToUpperC(c)
           THEN CHOOSE i \in 1..26 : UpperS[i] = ToUpperC(c) ELSE 0
\* a.localeCompare(b) on words of letters: negative, zero or positive
RECURSIVE LocaleCompare(_, _)
LocaleCompare(a, b) ==
    IF a = <<>> /\ b = <<>> THEN 0
    ELSE IF a = <<>> THEN 0 - 1
    ELSE IF b = <<>> THEN 1
    ELSE IF Rank(Head(a)) # Rank(Head(b)) THEN Rank(Head(a)) - Rank(Head(b))
    ELSE LocaleCompare(Tail(a), Tail(b))

TCP == <<"T","C","P">>
UDP == <<"U","D","P">>
StarStar == <<"*",":","*">>

(***************************************************************************)
(* js/syslib_ports.js: splitHostPort                                        *)
(***************************************************************************)
\* /^\[(.+)\]:(\d+)$/ : the index of the closing bracket, or 0
BracketClose(addr) ==
    IF /\ Len(addr) >= 5
       /\ addr[1] = "["
       /\ \E j \in 3..(Len(addr) - 2) :
             /\ addr[j] = "]" /\ addr[j+1] = ":"
             /\ AllDigits(SubSeq(addr, j + 2, Len(addr)))
    THEN CHOOSE j \in 3..(Len(addr) - 2) :
             /\ addr[j] = "]" /\ addr[j+1] = ":"
             /\ AllDigits(SubSeq(addr, j + 2, Len(addr)))
    ELSE 0

splitHostPort(addr) ==
    IF addr = <<>> THEN [host |-> <<>>, port |-> NaN]
    ELSE LET j == BracketClose(addr) IN
         IF j # 0
         THEN [host |-> SubSeq(addr, 2, j - 1),
               port |-> ToNumber(SubSeq(addr, j + 2, Len(addr)))]
         ELSE LET idx == LastIndexOf(addr, ":") IN
              IF idx = 0 THEN [host |-> addr, port |-> NaN]
              ELSE [host |-> SubSeq(addr, 1, idx - 1),
                    port |-> ToNumber(SubSeq(addr, idx + 1, Len(addr)))]

(***************************************************************************)
(* js/syslib_ports.js: buildPidMapWindows (the tasklist CSV rows)           *)
(***************************************************************************)
EmptyMap == [x \in {} |-> <<>>]
MapSet(map, key, val) ==
    [x \in (DOMAIN map) \cup {key} |-> IF x = key THEN val ELSE map[x]]

\* the quoted-CSV state machine: the columns of one line
RECURSIVE CsvAcc(_, _, _, _)
CsvAcc(line, cur, cols, inQuotes) ==
    IF line = <<>> THEN Append(cols, cur)
    ELSE LET ch == Head(line) IN
         IF ch = "\"" THEN CsvAcc(Tail(line), cur, cols, ~inQuotes)
         ELSE IF ch = "," /\ ~inQuotes
              THEN CsvAcc(Tail(line), <<>>, Append(cols, cur), inQuotes)
              ELSE CsvAcc(Tail(line), Append(cur, ch), cols, inQuotes)
CsvCols(line) == CsvAcc(line, <<>>, <<>>, FALSE)

\* one row of tasklist: map.set(pid, imageName) when both are usable
TaskRow(map, line) ==
    LET cols == CsvCols(line)
        imageName == Trim(cols[1])
        pid == ParseInt(Trim(IF Len(cols) >= 2 THEN cols[2] ELSE <<>>))
    IN IF imageName # <<>> /\ ~IsNaN(pid) THEN MapSet(map, pid.v, imageName)
       ELSE map

RECURSIVE TaskRows(_, _)
TaskRows(map, lines) ==
    IF lines = <<>> THEN map
    ELSE TaskRows(IF Trim(Head(lines)) = <<>> THEN map
                  ELSE TaskRow(map, Head(lines)), Tail(lines))

(***************************************************************************)
(* js/syslib_ports.js: scanPorts, the classification of one line            *)
(***************************************************************************)
ProgressEvery == 25
InitialEstimate == 200
EstimateMargin == 50
MaxPortLimit == 65535

\* maxPort = Math.min(65535, Math.max(1, Math.floor(maxPort))), 65535 when
\* the argument is not a finite number
ClampMaxPort(m) ==
    IF ~IsFinite(m) THEN MaxPortLimit ELSE Min(MaxPortLimit, Max(1, m.v))

\* /^(TCP|UDP)\s+/i
StartsProto(line) ==
    /\ Len(line) >= 4
    /\ ToUpper(SubSeq(line, 1, 3)) \in {TCP, UDP}
    /\ IsWs(line[4])

PortKept_unbounded(localPort, mp) == IsFinite(localPort)
\* Number.isFinite(localPort) && localPort <= maxPort
PortKept(localPort, mp) == IsFinite(localPort) /\ localPort.v <= mp

PidOf(pid) == IF IsNaN(pid) THEN Null ELSE pid
NameOf(pid, pidMap) ==
    IF IsNaN(pid) THEN <<>>
    ELSE IF pid.v \in DOMAIN pidMap THEN pidMap[pid.v] ELSE <<>>

\* the TCP / UDP branches applied to one trimmed line that starts with the
\* protocol: counted tells whether parsedCount is incremented, keep whether
\* the entry is pushed
ClassifyLine(line, mp, pidMap) ==
    LET parts == SplitWs(line)
        protocol == ToUpper(parts[1])
        none == [counted |-> FALSE, keep |-> FALSE, entry |-> Null]
    IN IF protocol = TCP /\ Len(parts) >= 5
       THEN LET l == splitHostPort(parts[2])
                f == splitHostPort(parts[3])
                pid == ParseInt(parts[5])
            IN [counted |-> TRUE,
                keep |-> PortKept(l.port, mp),
                entry |-> [protocol |-> protocol,
                           localAddress |-> l.host, localPort |-> l.port,
                           foreignAddress |-> f.host, foreignPort |-> f.port,
                           state |-> parts[4],
                           pid |-> PidOf(pid),
                           processName |-> NameOf(pid, pidMap)]]
       ELSE IF protocol = UDP
       THEN LET l == splitHostPort(IF Len(parts) >= 2 THEN parts[2] ELSE <<>>)
                f == splitHostPort(IF Len(parts) >= 3 /\ parts[3] # <<>>
                                   THEN parts[3] ELSE StarStar)
                pid == ParseInt(parts[Len(parts)])
            IN [counted |-> TRUE,
                keep |-> PortKept(l.port, mp),
                entry |-> [protocol |-> protocol,
                           localAddress |-> l.host, localPort |-> l.port,
                           foreignAddress |-> f.host, foreignPort |-> f.port,
                           state |-> <<>>,
                           pid |-> PidOf(pid),
                           processName |-> NameOf(pid, pidMap)]]
       ELSE none

\* the accumulators of one scan as a record st: entries, parsedCount,
\* estimateTotal and calls, the progressCb(current, total) calls made so far.
\* ParseOne is the parse of one trimmed line that starts with the protocol.
\* entries.push replaced by an insertion that skips an entry already listed
ApplyLine_unique(st, c) ==
    [st EXCEPT !.parsedCount = IF c.counted THEN @ + 1 ELSE @,
               !.entries = IF c.keep /\ \A i \in 1..Len(@) : @[i] # c.entry
                           THEN Append(@, c.entry) ELSE @]
\* the effect of one classified line on the accumulators
ApplyLine(st, c) ==
    [st EXCEPT !.parsedCount = IF c.counted THEN @ + 1 ELSE @,
               !.entries = IF c.keep THEN Append(@, c.entry) ELSE @]
ParseOne(st, line, mp, pidMap) == ApplyLine(st, ClassifyLine(line, mp, pidMap))

maybeProgress_noMargin(st) ==
    [st EXCEPT !.calls = Append(@, <<st.parsedCount, st.parsedCount>>)]
\* maybeProgress(): progressCb(parsedCount, max(parsedCount + 1, estimate))
maybeProgress(st) ==
    [st EXCEPT !.calls = Append(@, <<st.parsedCount,
                                    Max(st.parsedCount + 1, st.estimateTotal)>>)]

\* the body of the for loop of the 'data' handler for one complete line,
\* DataTrimmed being the part after line = raw.trim()
\* if (parsedCount % 25 === 0) { estimateTotal = ...; maybeProgress(); }
AfterParse(s1) ==
    IF s1.parsedCount % ProgressEvery = 0
    THEN maybeProgress([s1 EXCEPT !.estimateTotal =
                            Max(@, s1.parsedCount + EstimateMargin)])
    ELSE s1
DataTrimmed(st, line, mp, pidMap) ==
    IF line = <<>> \/ ~StartsProto(line) THEN st
    ELSE AfterParse(ParseOne(st, line, mp, pidMap))
DataLine(st, raw, mp, pidMap) == DataTrimmed(st, Trim(raw), mp, pidMap)

RECURSIVE DataLines(_, _, _, _)
DataLines(st, lines, mp, pidMap) ==
    IF lines = <<>> THEN st
    ELSE DataLines(DataLine(st, Head(lines), mp, pidMap), Tail(lines), mp, pidMap)

CompareEntries_portOnly(a, b) == a.localPort.v - b.localPort.v
\* the comparator of the final sort
CompareEntries(a, b) ==
    IF a.localPort.v # b.localPort.v THEN a.localPort.v - b.localPort.v
    ELSE LocaleCompare(a.protocol, b.protocol)

\* Array.prototype.sort (stable) with that comparator
RECURSIVE InsertSorted(_, _)
InsertSorted(sorted, e) ==
    IF sorted = <<>> THEN <<e>>
    ELSE IF CompareEntries(Last(sorted), e) <= 0 THEN Append(sorted, e)
    ELSE Append(InsertSorted(Front(sorted), e), Last(sorted))
RECURSIVE SortEntries(_)
SortEntries(es) ==
    IF es = <<>> THEN <<>>
    ELSE InsertSorted(SortEntries(Front(es)), Last(es))

\* the flush of the leftover by the 'end' handler
\* the 'end' handler without the parse of the leftover
EndLine_skip(st, left, mp, pidMap) == st
EndLine(st, left, mp, pidMap) ==
    LET line == Trim(left) IN
    IF line = <<>> \/ ~StartsProto(line) THEN st
    ELSE ParseOne(st, line, mp, pidMap)

finalProgress_estimate(st) ==
    [st EXCEPT !.calls = Append(@, <<st.parsedCount,
                                    Max(st.parsedCount + 1, st.estimateTotal)>>)]
\* the final progressCb(parsedCount, parsedCount)
finalProgress(st) ==
    [st EXCEPT !.calls = Append(@, <<st.parsedCount, st.parsedCount>>)]

\* the accumulators at the start of a scan
Acc0 == [entries |-> <<>>, parsedCount |-> 0,
         estimateTotal |-> InitialEstimate, calls |-> <<>>]

(***************************************************************************)
(* lib/parsers.js                                                           *)
(***************************************************************************)
\* JavaScript values of the records: a string, undefined (null and numbers
\* are defined above)
Str(s) == [k |-> "str", v |-> s]
Undefined == [k |-> "undef", v |-> 0]
\* the truthiness used by ||, && and filter(Boolean)
Truthy(x) ==
    CASE x.k = "str" -> x.v # <<>>
      [] x.k = "num" -> x.v # 0
      [] OTHER -> FALSE
\* a || b
OrElse(a, b) == IF Truthy(a) THEN a ELSE b

IndexOf(s, c) ==
    IF \E i \in 1..Len(s) : s[i] = c
    THEN CHOOSE i \in 1..Len(s) : s[i] = c /\ \A j \in 1..(i-1) : s[j] # c
    ELSE 0

\* /^\[([^\]]+)\]:(\d+)$/ : the index of the closing bracket, or 0
BracketCloseStrict(addr) ==
    IF /\ Len(addr) >= 5
       /\ addr[1] = "["
       /\ \E j \in 3..(Len(addr) - 2) :
             /\ addr[j] = "]" /\ addr[j+1] = ":"
             /\ \A i \in 2..(j-1) : addr[i] # "]"
             /\ AllDigits(SubSeq(addr, j + 2, Len(addr)))
    THEN CHOOSE j \in 3..(Len(addr) - 2) :
             /\ addr[j] = "]" /\ addr[j+1] = ":"
             /\ \A i \in 2..(j-1) : addr[i] # "]"
             /\ AllDigits(SubSeq(addr, j + 2, Len(addr)))
    ELSE 0

\* splitHostPort of lib/parsers.js: the port is a number or null
parsers_splitHostPort(addr) ==
    IF addr = <<>> THEN [host |-> Str(addr), port |-> Null]
    ELSE LET j == BracketCloseStrict(addr) IN
         IF j # 0
         THEN [host |-> Str(SubSeq(addr, 2, j - 1)),
               port |-> ToNumber(SubSeq(addr, j + 2, Len(addr)))]
         ELSE LET lastColon == LastIndexOf(addr, ":") IN
              IF lastColon > 0 /\ IndexOf(addr, ":") = lastColon
              THEN LET port == ToNumber(SubSeq(addr, lastColon + 1, Len(addr)))
                   IN [host |-> Str(SubSeq(addr, 1, lastColon - 1)),
                       port |-> IF IsFinite(port) THEN port ELSE Null]
              ELSE IF addr = StarStar THEN [host |-> Str(<<"*">>), port |-> Null]
              ELSE [host |-> Str(addr), port |-> Null]

\* \w and \b of a JavaScript regular expression (ASCII letters, digits, _)
IsWordChar(c) == Rank(c) # 0 \/ IsDigit(c) \/ c = "_"
IsWordAt(s, i) == i \in 1..Len(s) /\ IsWordChar(s[i])
\* \b just before index i
Boundary(s, i) == IsWordAt(s, i - 1) # IsWordAt(s, i)
\* the literal pat at index i, case-insensitively (flag i)
MatchAt(s, i, pat) ==
    /\ i >= 1
    /\ i + Len(pat) - 1 <= Len(s)
    /\ \A n \in 1..Len(pat) : ToUpperC(s[i + n - 1]) = ToUpperC(pat[n])
\* /\b(p1|p2)\b/i at index i, for alternatives of one length
WordMatchAt(s, i, pats) ==
    \E pat \in pats :
        MatchAt(s, i, pat) /\ Boundary(s, i) /\ Boundary(s, i + Len(pat))
FirstWordMatch(s, pats) ==
    IF \E i \in 1..Len(s) : WordMatchAt(s, i, pats)
    THEN CHOOSE i \in 1..Len(s) :
            WordMatchAt(s, i, pats) /\ \A j \in 1..(i-1) : ~WordMatchAt(s, j, pats)
    ELSE 0
PatLen(pats) == Len(CHOOSE pat \in pats : TRUE)

\* line.replace(/\bpat\b/i, repl): the first match only
ReplaceWord(s, pats, repl) ==
    LET i == FirstWordMatch(s, pats) IN
    IF i = 0 THEN s
    ELSE SubSeq(s, 1, i - 1) \o repl \o SubSeq(s, i + PatLen(pats), Len(s))
\* line.replace(/^pat/i, repl)
ReplacePrefix(s, pat, repl) ==
    IF MatchAt(s, 1, pat) THEN repl \o SubSeq(s, Len(pat) + 1, Len(s)) ELSE s

W_ConnexionsActives == <<"C","o","n","n","e","x","i","o","n","s"," ","a","c","t","i","v","e","s">>
W_ActiveConnections == <<"A","c","t","i","v","e"," ","C","o","n","n","e","c","t","i","o","n","s">>
W_AdresseLocale == <<"A","d","r","e","s","s","e"," ","l","o","c","a","l","e">>
W_LocalAddress == <<"L","o","c","a","l"," ","A","d","d","r","e","s","s">>
W_AdresseDistante == <<"A","d","r","e","s","s","e"," ","d","i","s","t","a","n","t","e">>
W_ForeignAddress == <<"F","o","r","e","i","g","n"," ","A","d","d","r","e","s","s">>
W_Etat == {<<"É","t","a","t">>, <<"E","t","a","t">>}
W_State == <<"S","t","a","t","e">>
W_ECOUTE_accent == {<<"É","C","O","U","T","E">>}
W_ECOUTE == {<<"E","C","O","U","T","E">>}
W_FERMEE == {<<"F","E","R","M","É","E">>, <<"F","E","R","M","E","E">>}
W_LISTENING == <<"L","I","S","T","E","N","I","N","G">>
W_CLOSED == <<"C","L","O","S","E","D">>
W_UNSPECIFIED == <<"U","N","S","P","E","C","I","F","I","E","D">>
W_UNKNOWN_none == <<>>
W_UNKNOWN == <<"U","N","K","N","O","W","N">>

\* the chain of replace calls that turns French headers and states to English
NormalizeLine(line) ==
    LET l1 == ReplacePrefix(line, W_ConnexionsActives, W_ActiveConnections)
        l2 == ReplaceWord(l1, {W_AdresseLocale}, W_LocalAddress)
        l3 == ReplaceWord(l2, {W_AdresseDistante}, W_ForeignAddress)
        l4 == ReplaceWord(l3, W_Etat, W_State)
        l5 == ReplaceWord(l4, W_ECOUTE_accent, W_LISTENING)
        l6 == ReplaceWord(l5, W_ECOUTE, W_LISTENING)
    IN ReplaceWord(l6, W_FERMEE, W_CLOSED)

\* /\b(TCP|UDP)\b/i.test(l)
HasProtoWord(l) == FirstWordMatch(l, {TCP, UDP}) # 0

RECURSIVE JoinBar(_)
JoinBar(ss) == IF Len(ss) = 1 THEN ss[1]
               ELSE ss[1] \o <<"|">> \o JoinBar(Tail(ss))

\* Number(pid) || null
NumberOrNull(tok) ==
    LET n == ToNumber(tok) IN IF IsFinite(n) /\ n.v # 0 THEN n ELSE Null

\* the record pushed for one data line of netstat, or none
WinRecords(line) ==
    LET parts == SplitWs(line)
        proto == ToUpper(parts[1])
    IN IF proto = TCP /\ Len(parts) >= 5
       THEN LET l == parsers_splitHostPort(parts[2])
                r == parsers_splitHostPort(parts[3])
            IN <<[key |-> Str(JoinBar(<<proto, parts[2], parts[3], parts[5]>>)),
                  protocol |-> Str(TCP),
                  localAddress |-> l.host, localPort |-> l.port,
                  remoteAddress |-> r.host, remotePort |-> r.port,
                  state |-> Str(ToUpper(parts[4])),
                  pid |-> NumberOrNull(parts[5]),
                  processName |-> Null, owner |-> Null]>>
       ELSE IF proto = UDP /\ Len(parts) >= 4
       THEN LET l == parsers_splitHostPort(parts[2])
                r == parsers_splitHostPort(parts[3])
            IN <<[key |-> Str(JoinBar(<<proto, parts[2], parts[3], parts[4]>>)),
                  protocol |-> Str(UDP),
                  localAddress |-> l.host, localPort |-> l.port,
                  remoteAddress |-> r.host, remotePort |-> r.port,
                  state |-> Str(W_UNSPECIFIED),
                  pid |-> NumberOrNull(parts[4]),
                  processName |-> Null, owner |-> Null]>>
       ELSE <<>>

RECURSIVE TrimmedLines(_)
TrimmedLines(ls) ==
    IF ls = <<>> THEN <<>>
    ELSE (IF Trim(Head(ls)) = <<>> THEN <<>> ELSE <<Trim(Head(ls))>>)
         \o TrimmedLines(Tail(ls))

\* the records of one normalized line
WinLine(l) == IF HasProtoWord(l) THEN WinRecords(l) ELSE <<>>
RECURSIVE WinLines_abort(_)
WinLines_abort(ls) ==
    IF ls = <<>> \/ WinLine(NormalizeLine(Head(ls))) = <<>> THEN <<>>
    ELSE WinLine(NormalizeLine(Head(ls))) \o WinLines_abort(Tail(ls))
RECURSIVE WinLines(_)
WinLines(ls) ==
    IF ls = <<>> THEN <<>>
    ELSE WinLine(NormalizeLine(Head(ls))) \o WinLines(Tail(ls))

parseWindowsNetstat(text) == WinLines(TrimmedLines(SplitLines(text)))

\* lines = text.split(/\r?\n/).filter(Boolean)
RECURSIVE NonEmpty(_)
NonEmpty(ls) ==
    IF ls = <<>> THEN <<>>
    ELSE (IF Head(ls) = <<>> THEN <<>> ELSE <<Head(ls)>>) \o NonEmpty(Tail(ls))

\* the text after the first field of s and the white space that follows it
RECURSIVE DropField(_)
DropField(s) == IF s # <<>> /\ ~IsWs(Head(s)) THEN DropField(Tail(s))
                ELSE TrimStart(s)
RECURSIVE FirstField(_)
FirstField(s) == IF s # <<>> /\ ~IsWs(Head(s))
                 THEN <<Head(s)>> \o FirstField(Tail(s)) ELSE <<>>
RECURSIVE DropFields(_, _)
DropFields(s, n) == IF n = 0 THEN s ELSE DropFields(DropField(s), n - 1)
\* the n-th white-space separated field of a line that starts with a field
Field(s, n) == FirstField(DropFields(s, n - 1))

W_Netid == <<"N","e","t","i","d">>
W_tcp == <<"t","c","p">>
W_udp == <<"u","d","p">>
W_users == <<"u","s","e","r","s",":","(","(">>
W_pidEq == <<"p","i","d","=">>
W_arrow == <<"-",">">>

\* /^\s*Netid\s+/i
IsNetidHeader(l) ==
    LET t == TrimStart(l) IN
    MatchAt(t, 1, W_Netid) /\ Len(t) > 5 /\ IsWs(t[6])

\* the digits of a natural number, as String(n) writes them
RECURSIVE NatToStr(_)
NatToStr(n) ==
    LET d == <<"0","1","2","3","4","5","6","7","8","9">>[(n % 10) + 1] IN
    IF n < 10 THEN <<d>> ELSE NatToStr(n \div 10) \o <<d>>

\* (?:\s+users:\(\((.+)\)\))? after the sixth field: the text captured by
\* (.+), or '' when the group does not match
UsersGroup(rest) ==
    LET ends == {p \in 10..(Len(rest) - 1) :
                    /\ rest[p] = ")" /\ rest[p+1] = ")"
                    /\ \A i \in 9..(p-1) : rest[i] \notin {"\r", "\n"}}
    IN IF MatchAt(rest, 1, W_users) /\ ends # {}
       THEN SubSeq(rest, 9, (CHOOSE p \in ends : \A q \in ends : q <= p) - 1)
       ELSE <<>>

\* users.match(/"([^"]+)"[,)]\s*pid=(\d+)/) at the opening quote i
PidEqAt(u, j) ==
    \* index of 'pid=' after the closing quote j, the separator and \s*
    LET afterSep == SubSeq(u, j + 2, Len(u))
        t == TrimStart(afterSep)
    IN IF /\ j + 1 <= Len(u) /\ u[j+1] \in {",", ")"}
          /\ Len(t) >= 5 /\ SubSeq(t, 1, 4) = W_pidEq /\ IsDigit(t[5])
       THEN DigitPrefix(SubSeq(t, 5, Len(t))) ELSE <<>>
ClosingQuote(u, i) ==
    IF \E j \in (i+1)..Len(u) : u[j] = "\""
    THEN CHOOSE j \in (i+1)..Len(u) :
            u[j] = "\"" /\ \A m \in (i+1)..(j-1) : u[m] # "\""
    ELSE 0
UserMatchAt(u, i) ==
    /\ u[i] = "\""
    /\ ClosingQuote(u, i) > i + 1
    /\ PidEqAt(u, ClosingQuote(u, i)) # <<>>
\* the users group is never looked into
UserMatch_none(u) == [found |-> FALSE, name |-> <<>>, pid |-> 0]
UserMatch(u) ==
    IF \E i \in 1..Len(u) : UserMatchAt(u, i)
    THEN LET i == CHOOSE i \in 1..Len(u) :
                      UserMatchAt(u, i) /\ \A m \in 1..(i-1) : ~UserMatchAt(u, m)
             j == ClosingQuote(u, i)
         IN [found |-> TRUE, name |-> SubSeq(u, i + 1, j - 1),
             pid |-> DecVal(PidEqAt(u, j))]
    ELSE [found |-> FALSE, name |-> <<>>, pid |-> 0]

\* the record of one line of ss, or none: the line has to match
\* /^(tcp|udp)\s+(\S+)\s+\S+\s+\S+\s+(\S+)\s+(\S+)(?:\s+users:\(\((.+)\)\))?/i
SSRecords(line) ==
    IF /\ (MatchAt(line, 1, W_tcp) \/ MatchAt(line, 1, W_udp))
       /\ Len(line) >= 4 /\ IsWs(line[4])
       /\ Field(line, 6) # <<>>
    THEN LET protocol == ToUpper(SubSeq(line, 1, 3))
             state == ToUpper(Field(line, 2))
             local == Field(line, 5)
             remote == Field(line, 6)
             u == UserMatch(UsersGroup(DropFields(line, 6)))
             l == parsers_splitHostPort(local)
             r == parsers_splitHostPort(remote)
         IN <<[key |-> Str(JoinBar(<<protocol, local, remote,
                                     IF u.found THEN NatToStr(u.pid) ELSE <<>> >>)),
               protocol |-> Str(protocol),
               localAddress |-> l.host, localPort |-> l.port,
               remoteAddress |-> r.host, remotePort |-> r.port,
               state |-> Str(state),
               pid |-> IF u.found THEN Num(u.pid) ELSE Null,
               processName |-> IF u.found THEN Str(u.name) ELSE Null,
               owner |-> Null]>>
    ELSE <<>>

RECURSIVE SSLines(_)
SSLines(ls) ==
    IF ls = <<>> THEN <<>>
    ELSE (IF IsNetidHeader(Head(ls)) THEN <<>> ELSE SSRecords(Head(ls)))
         \o SSLines(Tail(ls))

parseLinuxSS(text) == SSLines(NonEmpty(SplitLines(text)))

\* s.indexOf(sub) for a non-empty sub, or 0
IndexOfSub(s, sub) ==
    LET hits == {i \in 1..(Len(s) - Len(sub) + 1) :
                    SubSeq(s, i, i + Len(sub) - 1) = sub}
    IN IF hits = {} THEN 0 ELSE CHOOSE i \in hits : \A j \in hits : i <= j

\* /\(([^)]+)\)\s*$/ : the indexes of the parentheses, or <<0, 0>>
StateSuffix(s) ==
    LET t == TrimEnd(s)
        j == Len(t)
        opens == {i \in 1..(j - 2) :
                     t[i] = "(" /\ \A m \in (i+1)..(j-1) : t[m] # ")"}
    IN IF j >= 3 /\ t[j] = ")" /\ opens # {}
       THEN << CHOOSE i \in opens : \A m \in opens : i <= m, j >>
       ELSE <<0, 0>>

\* /^(\S+)\s+(\d+)\s+(\S+)/ : COMMAND PID USER
HeadMatch(line) ==
    /\ line # <<>> /\ ~IsWs(line[1])
    /\ Field(line, 2) # <<>> /\ AllDigits(Field(line, 2))
    /\ Field(line, 3) # <<>>

\* the record pushed for one line of lsof, from its protocol, its state and
\* the two ends of its connection
LsofRecord(line, protocol, state, local, remote) ==
    LET hm == HeadMatch(line)
        pid == IF hm THEN Num(DecVal(Field(line, 2))) ELSE Null
        owner == IF hm THEN Str(Field(line, 3)) ELSE Null
        l == parsers_splitHostPort(local)
        r == parsers_splitHostPort(remote)
    IN <<[key |-> Str(JoinBar(<<protocol, local, remote,
                                IF hm THEN NatToStr(pid.v) ELSE <<>> >>)),
          protocol |-> Str(protocol),
          localAddress |-> l.host, localPort |-> l.port,
          remoteAddress |-> r.host, remotePort |-> r.port,
          state |-> Str(state),
          pid |-> pid,
          processName |-> IF ~IsWs(line[1]) THEN Str(FirstField(line)) ELSE Null,
          owner |-> owner]>>

\* arrow.includes('->') ? arrow.split('->') : [arrow, '*:*']
LsofEnds(line, protocol, state, arrow) ==
    LET a1 == IndexOfSub(arrow, W_arrow)
        afterArrow == SubSeq(arrow, a1 + 2, Len(arrow))
        a2 == IndexOfSub(afterArrow, W_arrow)
    IN LsofRecord(line, protocol, state,
                  IF a1 # 0 THEN Trim(SubSeq(arrow, 1, a1 - 1)) ELSE Trim(arrow),
                  IF a1 = 0 THEN StarStar
                  ELSE IF a2 = 0 THEN Trim(afterArrow)
                  ELSE Trim(SubSeq(afterArrow, 1, a2 - 1)))

\* the state in parentheses at the end of afterProto, and what is before it;
\* sm is the match of the state pattern
LsofState(line, protocol, afterProto, sm) ==
    LsofEnds(line, protocol,
             IF sm[1] # 0
             THEN ToUpper(SubSeq(afterProto, sm[1] + 1, sm[2] - 1))
             ELSE IF protocol = UDP THEN W_UNSPECIFIED ELSE W_UNKNOWN,
             IF sm[1] # 0 THEN Trim(SubSeq(afterProto, 1, sm[1] - 1))
             ELSE Trim(afterProto))

LsofAfter(line, protocol, afterProto) ==
    LsofState(line, protocol, afterProto, StateSuffix(afterProto))

\* the record of one line of lsof, or none
LsofRecords(line) ==
    LET at == FirstWordMatch(line, {TCP, UDP})
        matched == SubSeq(line, at, at + 2)
    IN IF at = 0 THEN <<>>
       ELSE LsofAfter(line, ToUpper(matched),
                      Trim(SubSeq(line, IndexOfSub(line, matched) + 3, Len(line))))

RECURSIVE LsofLines(_)
LsofLines(ls) ==
    IF ls = <<>> THEN <<>>
    ELSE LsofRecords(Head(ls)) \o LsofLines(Tail(ls))

parseLsof(text) == LsofLines(NonEmpty(SplitLines(text)))

(***************************************************************************)
(* lib/sysExec.js, lib/windows.js, lib/owners.js: commands and resolvers    *)
(***************************************************************************)
\* the outcome of a promise: fulfilled with a value, or rejected
Ok(val) == [ok |-> TRUE, val |-> val]
Fail == [ok |-> FALSE, val |-> <<>>]

\* s.split(sep) for a literal separator, from index from on
RECURSIVE SplitOnFrom(_, _, _)
SplitOnFrom(s, sep, from) ==
    LET hits == {i \in from..(Len(s) - Len(sep) + 1) :
                    SubSeq(s, i, i + Len(sep) - 1) = sep}
    IN IF hits = {} THEN <<SubSeq(s, from, Len(s))>>
       ELSE LET e == CHOOSE i \in hits : \A j \in hits : i <= j IN
            <<SubSeq(s, from, e - 1)>> \o SplitOnFrom(s, sep, e + Len(sep))
SplitOn(s, sep) == SplitOnFrom(s, sep, 1)

\* raw = line.replace(/^"|"$/g, '')
StripQuotes(line) ==
    LET a == IF line # <<>> /\ Head(line) = "\"" THEN 2 ELSE 1
        b == IF Len(line) >= a /\ Last(line) = "\"" THEN Len(line) - 1 ELSE Len(line)
    IN SubSeq(line, a, b)

W_quoteCommaQuote == <<"\"", ",", "\"">>

\* the rows of a ConvertTo-Csv table after its header: map[pid] = name
RECURSIVE PidNameRows(_, _)
PidNameRows(map, lines) ==
    IF lines = <<>> THEN map
    ELSE LET parts == SplitOn(StripQuotes(Head(lines)), W_quoteCommaQuote)
             pid == ToNumber(parts[1])
             name == IF Len(parts) >= 2 THEN Str(parts[2]) ELSE Undefined
         IN PidNameRows(IF IsFinite(pid) THEN MapSet(map, pid.v, name) ELSE map,
                        Tail(lines))

getWindowsPidMap_throws(out) ==
    IF ~out.ok THEN Fail
    ELSE Ok(PidNameRows(EmptyMap, Tail(NonEmpty(SplitLines(out.val)))))
\* getWindowsPidMap: {} when the command fails
getWindowsPidMap(out) ==
    IF ~out.ok THEN Ok(EmptyMap)
    ELSE Ok(PidNameRows(EmptyMap, Tail(NonEmpty(SplitLines(out.val)))))

\* the regular expression /\\r?\\n/ of lib/owners.js: a backslash, an
\* optional 'r', a backslash and 'n'; the length of its match at i, or 0
\* the literal pat at index i of s, case-sensitively
LitAt(s, i, pat) ==
    /\ i + Len(pat) - 1 <= Len(s)
    /\ SubSeq(s, i, i + Len(pat) - 1) = pat
EscNlAt(s, i) ==
    IF LitAt(s, i, <<"\\", "r", "\\", "n">>) THEN 4
    ELSE IF LitAt(s, i, <<"\\", "\\", "n">>) THEN 3
    ELSE 0
RECURSIVE SplitEscNlFrom(_, _)
SplitEscNlFrom(s, from) ==
    LET hits == {i \in from..Len(s) : EscNlAt(s, i) # 0} IN
    IF hits = {} THEN <<SubSeq(s, from, Len(s))>>
    ELSE LET e == CHOOSE i \in hits : \A j \in hits : i <= j IN
         <<SubSeq(s, from, e - 1)>> \o SplitEscNlFrom(s, e + EscNlAt(s, e))
SplitEscNl(s) == SplitEscNlFrom(s, 1)

\* the rows of the WMI table: map[pid] = owner when both are usable
RECURSIVE OwnerRows(_, _)
OwnerRows(map, lines) ==
    IF lines = <<>> THEN map
    ELSE LET parts == SplitOn(StripQuotes(Head(lines)), W_quoteCommaQuote)
             pid == ToNumber(parts[1])
             owner == IF Len(parts) >= 2 /\ parts[2] # <<>> THEN Str(parts[2]) ELSE Null
         IN OwnerRows(IF IsFinite(pid) /\ Truthy(owner)
                      THEN MapSet(map, pid.v, owner) ELSE map, Tail(lines))

\* ownersWindows: {} when the command fails
ownersWindows(out) ==
    IF ~out.ok THEN Ok(EmptyMap)
    ELSE Ok(OwnerRows(EmptyMap, Tail(NonEmpty(SplitEscNl(out.val)))))

\* line.trim().split(/\\s+/): the separator is a backslash and one or more 's'
RECURSIVE SplitEscWsFrom(_, _)
SplitEscWsFrom(s, from) ==
    LET hits == {i \in from..(Len(s) - 1) : s[i] = "\\" /\ s[i+1] = "s"} IN
    IF hits = {} THEN <<SubSeq(s, from, Len(s))>>
    ELSE LET e == CHOOSE i \in hits : \A j \in hits : i <= j
             n == FirstFrom(s, e + 1, LAMBDA c : c # "s")
         IN <<SubSeq(s, from, e - 1)>>
            \o (IF n = 0 THEN << <<>> >> ELSE SplitEscWsFrom(s, n))

RECURSIVE PsRows(_, _)
PsRows(map, lines) ==
    IF lines = <<>> THEN map
    ELSE LET parts == SplitEscWsFrom(Trim(Head(lines)), 1)
             pid == ToNumber(parts[1])
         IN PsRows(IF Len(parts) >= 2 /\ IsFinite(pid) /\ parts[2] # <<>>
                   THEN MapSet(map, pid.v, Str(parts[2])) ELSE map, Tail(lines))

\* ownersDarwin: {} when the command fails
ownersDarwin(out) ==
    IF ~out.ok THEN Ok(EmptyMap)
    ELSE Ok(PsRows(EmptyMap, Tail(SplitEscNl(out.val))))

\* buildUidNameMap over the text of readPasswd ('' when the read fails)
RECURSIVE UidRows(_, _)
UidRows(map, lines) ==
    IF lines = <<>> THEN map
    ELSE LET line == Head(lines)
             parts == SplitOn(line, <<":">>)
             uid == ToNumber(parts[3])
         IN UidRows(IF /\ line # <<>> /\ Head(line) # "#"
                       /\ Len(parts) >= 3 /\ IsFinite(uid)
                    THEN MapSet(map, uid.v, Str(parts[1])) ELSE map, Tail(lines))
buildUidNameMap(passwd) ==
    UidRows(EmptyMap, SplitEscNl(IF passwd.ok THEN passwd.val ELSE <<>>))

\* /^Uid:\\s+(\\d+)/m : at a line start, 'Uid:', a backslash, one or more
\* 's', a backslash and one or more 'd'
UidPatternAt(t, i) ==
    /\ (i = 1 \/ t[i-1] \in {"\n", "\r"})
    /\ LitAt(t, i, <<"U","i","d",":","\\","s">>)
    /\ LET n == FirstFrom(t, i + 5, LAMBDA c : c # "s") IN
       n # 0 /\ n < Len(t) /\ t[n] = "\\" /\ t[n+1] = "d"
\* pidToUid: Number(m[1]) of the text captured, which starts with a
\* backslash and is not a numeral; null when nothing matches or the read fails
pidToUid(status) ==
    IF status.ok /\ \E i \in 1..Len(status.val) : UidPatternAt(status.val, i)
    THEN NaN ELSE Null

\* uidName[uid] for the value returned by pidToUid
UidName(uidName, uid) ==
    IF uid.k = "num" /\ uid.v \in DOMAIN uidName THEN uidName[uid.v] ELSE Undefined

\* ownersLinux over the files it reads: env.passwd, env.proc (the names in
\* /proc) and env.status (the status file of every process)
RECURSIVE ProcRows(_, _, _, _)
ProcRows(map, names, uidName, status) ==
    IF names = <<>> THEN map
    ELSE LET pid == ToNumber(Head(names))
             uid == pidToUid(status)
         IN ProcRows(IF /\ IsFinite(pid) /\ uid.k # "null"
                        /\ Truthy(UidName(uidName, uid))
                     THEN MapSet(map, pid.v, UidName(uidName, uid)) ELSE map,
                     Tail(names), uidName, status)
ownersLinux(env) ==
    Ok(ProcRows(EmptyMap, IF env.proc.ok THEN env.proc.val ELSE <<>>,
                buildUidNameMap(env.passwd), env.status))

\* getOwnerMap: the resolver of the platform; out is what the platform
\* answers (a command outcome, or the files of Linux)
getOwnerMap(plat, out) ==
    CASE plat = "win32" -> ownersWindows(out)
      [] plat = "linux" -> ownersLinux(out)
      [] plat = "darwin" -> ownersDarwin(out)
      [] OTHER -> Ok(EmptyMap)

\* promise.catch(() => ({}))
CatchEmpty_rethrow(p) == p
CatchEmpty(p) == IF p.ok THEN p ELSE Ok(EmptyMap)

(***************************************************************************)
(* lib/collector.js                                                         *)
(***************************************************************************)
OrNull(x) == IF Truthy(x) THEN x ELSE Null
FiniteOrNull(x) == IF x.k = "num" THEN x ELSE Null

NormalizeRecord(d) ==
    [key |-> IF Truthy(d.key) THEN d.key ELSE Str(<<>>),
     protocol |-> OrNull(d.protocol),
     localAddress |-> OrNull(d.localAddress),
     localPort |-> FiniteOrNull(d.localPort),
     remoteAddress |-> OrNull(d.remoteAddress),
     remotePort |-> FiniteOrNull(d.remotePort),
     state |-> OrNull(d.state),
     pid |-> FiniteOrNull(d.pid),
     processName |-> OrNull(d.processName),
     owner |-> OrNull(d.owner)]
RECURSIVE normalize(_)
normalize(records) ==
    IF records = <<>> THEN <<>>
    ELSE <<NormalizeRecord(Head(records))>> \o normalize(Tail(records))

\* map[c.pid], undefined when the key is missing
Lookup(map, pid) ==
    IF pid.k = "num" /\ pid.v \in DOMAIN map THEN map[pid.v] ELSE Undefined

\* the join without its guard: the field is assigned for every record
JoinOne_always(c, map, field) == [c EXCEPT ![field] = Lookup(map, c.pid)]
\* for (const c of conns) if (c.pid && map[c.pid]) c[field] = map[c.pid]
JoinOne(c, map, field) ==
    IF Truthy(c.pid) /\ Truthy(Lookup(map, c.pid))
    THEN [c EXCEPT ![field] = Lookup(map, c.pid)] ELSE c
RECURSIVE Join(_, _, _)
Join(cs, map, field) ==
    IF cs = <<>> THEN <<>>
    ELSE <<JoinOne(Head(cs), map, field)>> \o Join(Tail(cs), map, field)

CmdNetstat == "netstat -ano"
CmdSS == "ss -tunap"
CmdLsof == "lsof -nP -i"
CmdGetProcess == "powershell Get-Process"
CmdWmi == "powershell Get-WmiObject Win32_Process"
CmdPs == "ps -axo pid,user"
ListingCmds == {CmdNetstat, CmdSS, CmdLsof}

\* the extractor applied to the output of a connection-listing command
ParserOf(cmd, text) ==
    CASE cmd = CmdNetstat -> parseWindowsNetstat(text)
      [] cmd = CmdSS -> parseLinuxSS(text)
      [] OTHER -> parseLsof(text)

\* the try block of the linux branch of collectConnections succeeds: ss ran
\* and its output parsed to at least one record
SSUsable_anyOutput(out) == out.ok
SSUsable(out) == out.ok /\ parseLinuxSS(out.val) # <<>>

(***************************************************************************)
(* Inputs: the output texts of tasklist and netstat                         *)
(***************************************************************************)
L_tcp80 == <<"T","C","P"," ","h",":","8","0"," ","r",":","0"," ","L"," ","7">>
L_tcp2000 == <<"T","C","P"," ","h",":","2","0","0","0"," ","r",":","0"," ","E"," ","9">>
L_udp80 == <<"U","D","P"," ","h",":","8","0"," ","*",":","*"," ","7">>
L_udpStar == <<"U","D","P"," ","*",":","*"," ","*",":","*"," ","9">>
L_short == <<"T","C","P"," ","h",":","8","0">>
L_hdr == <<"P","r","o","t","o"," ","L","o","c">>
L_lower == <<"t","c","p","\t","[","h","]",":","5","3"," "," ","r",":","0"," ","L"," ","x">>
L_udpEmpty == <<"U","D","P"," ","h",":"," ","7">>
L_long == <<"U","D","P"," ",":","9">>

LinePool == {L_tcp80, L_tcp2000, L_udp80, L_udpStar, L_short, L_hdr,
             L_lower, L_udpEmpty}
LF == <<"\n">>
CRLF == <<"\r","\n">>

RECURSIVE Repeat(_, _)
Repeat(s, n) == IF n = 0 THEN <<>> ELSE s \o Repeat(s, n - 1)

\* one line of the pool with or without its newline (LF or CRLF), one line
\* followed by CRLF and a second line, a text of three lines, and one long
\* text that crosses the progress period
SecondLines == {L_tcp80, L_udpStar}
NetstatTexts ==
    {a \o t : a \in LinePool, t \in {<<>>, LF, CRLF}}
    \cup {a \o CRLF \o b : a \in LinePool, b \in SecondLines}
    \cup {L_tcp2000 \o LF \o L_udpStar \o LF \o L_tcp80 \o LF}
    \cup {Repeat(L_long \o LF, LongLines) \o L_tcp80}

\* "sv","7","x" CRLF bad LF "n,m","9"
Task1 == <<"\"","s","v","\"",",","\"","7","\"",",","\"","x","\"","\r","\n",
           "b","a","d","\n",
           "\"","n",",","m","\"",",","\"","9","\"">>
TasklistTexts == {Task1}

ErrBlank == <<" ","\n">>
ErrText == <<"e","r","r">>
StderrChunks == {ErrBlank, ErrText}

\* the maxPort arguments: below the range, inside it, above it, not a number
MaxPortArgs == {Num(0), Num(1024), Num(70000), NaN}

(***************************************************************************)
(* Inputs of the collector: what the operating system answers              *)
(***************************************************************************)
WinOut == <<" "," ","P","r","o","t","o"," "," ","L","o","c","a","l"," ","A",
    "d","d","r","e","s","s","\r","\n"," "," ","T","C","P"," "," "," "," ","h",
    ":","1","3","5"," "," "," ","r",":","0"," "," "," ","L","I","S","T","E",
    "N","I","N","G"," "," "," ","9","0","0","\r","\n"," "," ","U","D","P"," ",
    " "," "," ","h",":","5","3"," "," "," ","*",":","*"," "," "," ","7","\r",
    "\n">>
WinOutNone == <<"A","c","t","i","v","e"," ","C","o","n","n","e","c","t","i",
    "o","n","s","\r","\n">>
SSOut == <<"N","e","t","i","d"," ","S","t","a","t","e","\n","t","c","p"," ",
    "L","I","S","T","E","N"," ","0"," ","1","2","8"," ","h",":","2","2"," ",
    "*",":","*"," ","u","s","e","r","s",":","(","(","\"","s","s","h","d","\"",
    ",","p","i","d","=","7",",","f","d","=","3",")",")","\n","u","d","p"," ",
    "U","N","C","O","N","N"," ","0"," ","0"," ","h",":","6","8"," ","*",":",
    "*","\n">>
SSOutNone == <<"N","e","t","i","d"," ","S","t","a","t","e","\n">>
LsofOut == <<"C","O","M","M","A","N","D"," ","P","I","D"," ","U","S","E","R",
    "\n","n","o","d","e"," ","7"," ","b","o","b"," ","3","u"," ","I","P","v",
    "4"," ","1"," ","0","t","0"," ","T","C","P"," ","h",":","8","0","-",">",
    "r",":","5"," ","(","E","S","T","A","B","L","I","S","H","E","D",")","\n">>
LsofOutNone == <<"C","O","M","M","A","N","D"," ","P","I","D"," ","U","S","E",
    "R","\n">>
GetProcessOut == <<"\"","I","d","\"",",","\"","P","r","o","c","e","s","s","N",
    "a","m","e","\"","\r","\n","\"","9","0","0","\"",",","\"","s","v","c","h",
    "o","s","t","\"","\r","\n","\"","7","\"",",","\"","d","n","s","\"","\r",
    "\n">>
GetProcessBad == <<"G","e","t","-","P","r","o","c","e","s","s"," ",":"," ",
    "d","e","n","i","e","d","\r","\n","9","0","0"," ","s","v","c","h","o","s",
    "t","\r","\n">>
WmiOut == <<"\"","P","r","o","c","e","s","s","I","d","\"",",","\"","O","w",
    "n","e","r","\"","\r","\n","\"","9","0","0","\"",",","\"","S","Y","S","T",
    "E","M","\"","\r","\n">>
PsOut == <<" "," ","P","I","D"," ","U","S","E","R","\n"," "," "," "," ","7",
    " ","b","o","b","\n">>
PasswdOut == <<"r","o","o","t",":","x",":","0",":","0","\n","b","o","b",":",
    "x",":","7",":","7","\n">>
StatusOut == <<"N","a","m","e",":","\t","n","\n","U","i","d",":","\t","7",
    "\t","7","\n">>
ProcNames == << <<"7">>, <<"s","e","l","f">> >>

Platforms == {"win32", "linux", "darwin", "freebsd"}
AllCmds == {CmdNetstat, CmdSS, CmdLsof, CmdGetProcess, CmdWmi, CmdPs}
NetstatOuts == {Fail, Ok(WinOut), Ok(WinOutNone)}
SSOuts == {Fail, Ok(SSOut), Ok(SSOutNone)}
LsofOuts == {Fail, Ok(LsofOut), Ok(LsofOutNone)}
GetProcessOuts == {Fail, Ok(GetProcessOut), Ok(GetProcessBad)}
WmiOuts == {Fail, Ok(WmiOut)}
PsOuts == {Fail, Ok(PsOut)}
NoProcFs == [passwd |-> Fail, proc |-> Fail, status |-> Fail]
ProcFsSet == {NoProcFs,
              [passwd |-> Ok(PasswdOut), proc |-> Ok(ProcNames), status |-> Fail],
              [passwd |-> Ok(PasswdOut), proc |-> Ok(ProcNames), status |-> Ok(StatusOut)]}

\* the commands a platform has; every other command fails to start
ExecOuts(plat) ==
    CASE plat = "win32" ->
           {[c \in AllCmds |-> CASE c = CmdNetstat -> a [] c = CmdGetProcess -> b
                                 [] c = CmdWmi -> w [] OTHER -> Fail] :
               a \in NetstatOuts, b \in GetProcessOuts, w \in WmiOuts}
      [] plat = "linux" ->
           {[c \in AllCmds |-> CASE c = CmdSS -> a [] c = CmdLsof -> b
                                 [] OTHER -> Fail] :
               a \in SSOuts, b \in LsofOuts}
      [] plat = "darwin" ->
           {[c \in AllCmds |-> CASE c = CmdLsof -> a [] c = CmdPs -> b
                                 [] OTHER -> Fail] :
               a \in LsofOuts, b \in PsOuts}
      [] OTHER ->
           {[c \in AllCmds |-> CASE c = CmdLsof -> a [] OTHER -> Fail] :
               a \in LsofOuts}

(***************************************************************************)
(* State                                                                    *)
(***************************************************************************)
VARIABLES
    maxPort,        \* scanPorts: the clamped bound
    phase,          \* "tasklist": awaiting buildPidMapWindows; "netstat"
    psText,         \* what tasklist writes to its stdout
    psPos,          \* how much of it has been delivered
    psLeftover,     \* buildPidMapWindows: leftover
    pidMap,         \* buildPidMapWindows: map
    nsText,         \* what netstat writes to its stdout if it runs to its end
    nsAvail,        \* how much of it netstat writes before it terminates
    nsPos,          \* how much of it has been delivered
    nsOut,          \* stdout of netstat: "open", "ended", "failed" (no spawn)
    stderrLeft,     \* 'data' events the error stream may still deliver
    leftover,       \* scanPorts: leftover
    acc,            \* scanPorts: entries, parsedCount, estimateTotal; calls
    promise,        \* the promise of scanPorts: "pending", "resolved", "rejected"
    result,         \* the value it resolved with
    sse,            \* GET /scan: the data messages written to the response
    resEnded,       \* GET /scan: number of res.end() calls
    failed,         \* history: netstat did not spawn or wrote to its stderr
    cut             \* history: "line" once a chunk ended inside a line,
                    \* "crlf" once one ended between '\r' and '\n'

scanVars == <<maxPort, phase, psText, psPos, psLeftover, pidMap, nsText,
              nsAvail, nsPos, nsOut, stderrLeft, leftover, acc, promise,
              result, sse, resEnded, failed, cut>>

VARIABLES
    platform,       \* os.platform()
    execOut,        \* what exec answers for each command: Ok(stdout) or Fail
    procFs,         \* what reading /etc/passwd, /proc and /proc/<pid>/status gives
    cpc,            \* collectConnections: the await it is suspended at
    cmds,           \* the commands run by collectConnections, in order
    conns,          \* collectConnections: conns
    cstatus,        \* its promise: "pending", "resolved", "rejected"
    cresult,        \* the value it resolved with
    rpc,            \* getRawOSOutput: the await it is suspended at
    rcmds,          \* the commands run by getRawOSOutput, in order
    rstatus,        \* its promise: "pending", "resolved", "rejected"
    rresult         \* the text it resolved with

envVars == <<platform, execOut, procFs>>
collectVars == <<cpc, cmds, conns, cstatus, cresult>>
rawVars == <<rpc, rcmds, rstatus, rresult>>
colVars == <<envVars, collectVars, rawVars>>

VARIABLES
    pfn,            \* the function of lib/parsers.js or js/syslib_ports.js called
    pin,            \* its argument: an address token, a line or a text
    pdone,          \* whether it has returned
    pout            \* what it returned, as a sequence

parseVars == <<pfn, pin, pdone, pout>>

VARIABLES
    subproc,        \* two scans at once: the subprocesses of each invocation
    closure         \* and the variables each invocation of scanPorts declares

pairVars == <<subproc, closure>>
extVars == <<parseVars, pairVars>>
vars == <<scanVars, colVars, extVars>>

\* no function is called on its own
IdleParse ==
    /\ pfn = "none"
    /\ pin = <<>>
    /\ pdone = FALSE
    /\ pout = <<>>
\* no two scans run at once
IdlePair ==
    /\ subproc = <<>>
    /\ closure = <<>>
IdleExt == IdleParse /\ IdlePair

Msg(t, c, n, d) == [type |-> t, current |-> c, total |-> n, data |-> d]

InitScan ==
    /\ maxPort \in {ClampMaxPort(m) : m \in MaxPortArgs}
    /\ phase = "tasklist"
    /\ psText \in TasklistTexts
    /\ psPos = 0
    /\ psLeftover = <<>>
    /\ pidMap = EmptyMap
    /\ nsText = <<>>
    /\ nsAvail = 0
    /\ nsPos = 0
    /\ nsOut = "open"
    /\ stderrLeft = MaxStderr
    /\ leftover = <<>>
    /\ acc = [entries |-> <<>>, parsedCount |-> 0,
              estimateTotal |-> InitialEstimate, calls |-> <<>>]
    /\ promise = "pending"
    /\ result = <<>>
    /\ sse = <<Msg("start", 0, 0, <<>>)>>
    /\ resEnded = 0
    /\ failed = FALSE
    /\ cut = "none"

(***************************************************************************)
(* buildPidMapWindows: the handlers of the tasklist subprocess              *)
(***************************************************************************)
\* scanPorts resumes after its await and spawns netstat
SpawnNetstat ==
    /\ phase' = "netstat"
    /\ nsText' \in NetstatTexts
    /\ nsAvail' = Len(nsText')

\* ps.stdout 'data'
PsData(k) ==
    /\ phase = "tasklist"
    /\ k \in 1..Min(MaxChunk, Len(psText) - psPos)
    /\ LET chunk == psLeftover \o SubSeq(psText, psPos + 1, psPos + k)
           lines == SplitLines(chunk)
       IN /\ psLeftover' = Last(lines)
          /\ pidMap' = TaskRows(pidMap, Front(lines))
    /\ psPos' = psPos + k
    /\ UNCHANGED <<colVars, extVars>>
    /\ UNCHANGED <<maxPort, phase, psText, nsText, nsAvail, nsPos, nsOut,
                   stderrLeft, leftover, acc, promise, result, sse, resEnded,
                   failed, cut>>

\* ps.stdout 'end': flush the leftover, resolve(map); scanPorts resumes and
\* spawns netstat
PsEnd ==
    /\ phase = "tasklist"
    /\ psPos = Len(psText)
    /\ pidMap' = IF Trim(psLeftover) # <<>>
                 THEN TaskRow(pidMap, Trim(psLeftover)) ELSE pidMap
    /\ SpawnNetstat
    /\ UNCHANGED <<colVars, extVars>>
    /\ UNCHANGED <<maxPort, psText, psPos, psLeftover, nsPos,
                   nsOut, stderrLeft, leftover, acc, promise, result, sse,
                   resEnded, failed, cut>>

\* ps 'error' (tasklist could not be spawned): resolve(map)
PsError ==
    /\ phase = "tasklist"
    /\ psPos = 0
    /\ SpawnNetstat
    /\ UNCHANGED <<colVars, extVars>>
    /\ UNCHANGED <<maxPort, psText, psPos, psLeftover, pidMap,
                   nsPos, nsOut, stderrLeft, leftover, acc, promise, result,
                   sse, resEnded, failed, cut>>

(***************************************************************************)
(* scanPorts: the handlers of the netstat subprocess, with the progress     *)
(* callback and the continuation of GET /scan (server.js)                   *)
(***************************************************************************)
\* the progress messages GET /scan writes for the calls made by one handler
RECURSIVE ProgressMsgs(_)
ProgressMsgs(cs) ==
    IF cs = <<>> THEN <<>>
    ELSE <<Msg("progress", Head(cs)[1], Head(cs)[2], <<>>)>> \o ProgressMsgs(Tail(cs))

NewCalls(st) == SubSeq(st.calls, Len(acc.calls) + 1, Len(st.calls))

\* leftover = lines.pop() || ''
popLeftover_dropped(lines) == <<>>
popLeftover(lines) == Last(lines)

\* ns.stdout 'data'
NsData(k) ==
    /\ phase = "netstat"
    /\ nsOut = "open"
    /\ k \in 1..Min(MaxChunk, nsAvail - nsPos)
    /\ LET chunk == leftover \o SubSeq(nsText, nsPos + 1, nsPos + k)
           lines == SplitLines(chunk)
           st == DataLines(acc, Front(lines), maxPort, pidMap)
       IN /\ leftover' = popLeftover(lines)
          /\ acc' = st
          /\ sse' = sse \o ProgressMsgs(NewCalls(st))
    /\ nsPos' = nsPos + k
    /\ cut' = IF /\ nsPos' < nsAvail /\ leftover' # <<>>
                 /\ Last(leftover') = "\r" /\ nsText[nsPos' + 1] = "\n"
              THEN "crlf"
              ELSE IF cut = "none" /\ nsPos' < nsAvail /\ leftover' # <<>>
              THEN "line" ELSE cut
    /\ UNCHANGED <<colVars, extVars>>
    /\ UNCHANGED <<maxPort, phase, psText, psPos, psLeftover, pidMap, nsText,
                   nsAvail, nsOut, stderrLeft, promise, result, resEnded,
                   failed>>

\* ns.stdout 'end': flush the leftover, final progress, sort, resolve; when
\* the promise is still pending GET /scan then writes 'done' and ends.
\* NsEndFlushed is the handler after the flush and the final progress call,
\* NsEndWith what follows the sort.
NsEndWith(st, sorted) ==
    /\ acc' = [st EXCEPT !.entries = sorted]
    /\ IF promise = "pending"
       THEN /\ promise' = "resolved"
            /\ result' = sorted
            /\ sse' = sse \o ProgressMsgs(NewCalls(st))
                          \o <<Msg("done", 0, 0, sorted)>>
            /\ resEnded' = resEnded + 1
       ELSE /\ sse' = sse \o ProgressMsgs(NewCalls(st))
            /\ UNCHANGED <<promise, result, resEnded>>
NsEndFlushed(st) == NsEndWith(st, SortEntries(st.entries))
NsEnd ==
    /\ phase = "netstat"
    /\ nsOut = "open"
    /\ nsPos = nsAvail
    /\ NsEndFlushed(finalProgress(EndLine(acc, leftover, maxPort, pidMap)))
    /\ nsOut' = "ended"
    /\ UNCHANGED <<colVars, extVars>>
    /\ UNCHANGED <<maxPort, phase, psText, psPos, psLeftover, pidMap, nsText,
                   nsAvail, nsPos, stderrLeft, leftover, failed, cut>>

\* reject(err) and, when the promise was still pending, the catch branch of
\* GET /scan: write 'error' and end the response
Reject ==
    IF promise = "pending"
    THEN /\ promise' = "rejected"
         /\ sse' = Append(sse, Msg("error", 0, 0, <<>>))
         /\ resEnded' = resEnded + 1
    ELSE UNCHANGED <<promise, sse, resEnded>>

\* ns 'error': netstat could not be spawned
NsError ==
    /\ phase = "netstat"
    /\ nsOut = "open"
    /\ nsPos = 0
    /\ stderrLeft = MaxStderr
    /\ nsOut' = "failed"
    /\ failed' = TRUE
    /\ Reject
    /\ UNCHANGED <<colVars, extVars>>
    /\ UNCHANGED <<maxPort, phase, psText, psPos, psLeftover, pidMap, nsText,
                   nsAvail, nsPos, stderrLeft, leftover, acc, result, cut>>

\* ns.stderr 'data': reject when the chunk is not blank.  The error stream is
\* a pipe of its own, so the event may come before, between or after the
\* events of stdout.
NsStderr(buf) ==
    /\ phase = "netstat"
    /\ nsOut \in {"open", "ended"}
    /\ stderrLeft > 0
    /\ stderrLeft' = stderrLeft - 1
    /\ IF Trim(buf) # <<>>
       THEN failed' = TRUE /\ Reject
       ELSE UNCHANGED <<promise, sse, resEnded, failed>>
    /\ UNCHANGED <<colVars, extVars>>
    /\ UNCHANGED <<maxPort, phase, psText, psPos, psLeftover, pidMap, nsText,
                   nsAvail, nsPos, nsOut, leftover, acc, result, cut>>

\* the netstat subprocess is terminated before it has written all its output
NsKill ==
    /\ phase = "netstat"
    /\ nsOut = "open"
    /\ nsAvail = Len(nsText)
    /\ nsPos < Len(nsText)
    /\ nsAvail' = nsPos
    /\ UNCHANGED <<colVars, extVars>>
    /\ UNCHANGED <<maxPort, phase, psText, psPos, psLeftover, pidMap, nsText,
                   nsPos, nsOut, stderrLeft, leftover, acc, promise, result,
                   sse, resEnded, failed, cut>>

\* no call of collectConnections or getRawOSOutput is in progress
IdleCollect ==
    /\ platform = "none"
    /\ execOut = [c \in {} |-> Fail]
    /\ procFs = [passwd |-> Fail, proc |-> Fail, status |-> Fail]
    /\ cpc = "idle"
    /\ cmds = <<>>
    /\ conns = <<>>
    /\ cstatus = "pending"
    /\ cresult = <<>>
    /\ rpc = "idle"
    /\ rcmds = <<>>
    /\ rstatus = "pending"
    /\ rresult = <<>>

Init == InitScan /\ IdleCollect /\ IdleExt

Next ==
    \/ \E k \in 1..MaxChunk : PsData(k)
    \/ PsEnd
    \/ PsError
    \/ \E k \in 1..MaxChunk : NsData(k)
    \/ NsEnd
    \/ NsError
    \/ \E buf \in StderrChunks : NsStderr(buf)
    \/ NsKill

Spec == Init /\ [][Next]_vars

(***************************************************************************)
(* collectConnections and getRawOSOutput (lib/collector.js)                 *)
(***************************************************************************)
\* no scan is in progress
IdleScan ==
    /\ maxPort = 0
    /\ phase = "idle"
    /\ psText = <<>>
    /\ psPos = 0
    /\ psLeftover = <<>>
    /\ pidMap = EmptyMap
    /\ nsText = <<>>
    /\ nsAvail = 0
    /\ nsPos = 0
    /\ nsOut = "open"
    /\ stderrLeft = 0
    /\ leftover = <<>>
    /\ acc = [entries |-> <<>>, parsedCount |-> 0,
              estimateTotal |-> InitialEstimate, calls |-> <<>>]
    /\ promise = "pending"
    /\ result = <<>>
    /\ sse = <<>>
    /\ resEnded = 0
    /\ failed = FALSE
    /\ cut = "none"

\* one call of collectConnections and one of getRawOSOutput on the same host
InitCollect ==
    /\ IdleScan
    /\ IdleExt
    /\ platform \in Platforms
    /\ execOut \in ExecOuts(platform)
    /\ procFs \in (IF platform = "linux" THEN ProcFsSet ELSE {NoProcFs})
    /\ cpc = "start"
    /\ cmds = <<>>
    /\ conns = <<>>
    /\ cstatus = "pending"
    /\ cresult = <<>>
    /\ rpc = "start"
    /\ rcmds = <<>>
    /\ rstatus = "pending"
    /\ rresult = <<>>

\* an awaited promise rejected outside any try block
CollectReject ==
    /\ cpc' = "done"
    /\ cstatus' = "rejected"
    /\ UNCHANGED <<conns, cresult>>

\* win32: await execPromise('netstat -ano'); parseWindowsNetstat
CollectNetstat ==
    /\ cpc = "start"
    /\ platform = "win32"
    /\ cmds' = Append(cmds, CmdNetstat)
    /\ IF execOut[CmdNetstat].ok
       THEN /\ conns' = parseWindowsNetstat(execOut[CmdNetstat].val)
            /\ cpc' = "pidmap"
            /\ UNCHANGED <<cstatus, cresult>>
       ELSE CollectReject
    /\ UNCHANGED <<envVars, rawVars, scanVars, extVars>>

\* win32: await getWindowsPidMap().catch(() => ({})); fill processName
CollectPidMap ==
    /\ cpc = "pidmap"
    /\ cmds' = Append(cmds, CmdGetProcess)
    /\ LET p == CatchEmpty(getWindowsPidMap(execOut[CmdGetProcess])) IN
       IF p.ok
       THEN /\ conns' = Join(conns, p.val, "processName")
            /\ cpc' = "owner"
            /\ UNCHANGED <<cstatus, cresult>>
       ELSE CollectReject
    /\ UNCHANGED <<envVars, rawVars, scanVars, extVars>>

\* linux: the try block: await execPromise('ss -tunap'); parseLinuxSS; throw
\* when no record was parsed
CollectSS ==
    /\ cpc = "start"
    /\ platform = "linux"
    /\ cmds' = Append(cmds, CmdSS)
    /\ conns' = IF execOut[CmdSS].ok THEN parseLinuxSS(execOut[CmdSS].val) ELSE conns
    /\ cpc' = IF SSUsable(execOut[CmdSS]) THEN "owner" ELSE "lsof"
    /\ UNCHANGED <<cstatus, cresult, envVars, rawVars, scanVars, extVars>>

\* linux: the catch block: await execPromise('lsof -nP -i'); parseLsof
CollectLsofFallback ==
    /\ cpc = "lsof"
    /\ cmds' = Append(cmds, CmdLsof)
    /\ IF execOut[CmdLsof].ok
       THEN /\ conns' = parseLsof(execOut[CmdLsof].val)
            /\ cpc' = "owner"
            /\ UNCHANGED <<cstatus, cresult>>
       ELSE CollectReject
    /\ UNCHANGED <<envVars, rawVars, scanVars, extVars>>

\* other platforms: await tryExec(['lsof -nP -i']), which throws
\* 'All commands failed.' when its only command fails; parseLsof
CollectLsof ==
    /\ cpc = "start"
    /\ platform \notin {"win32", "linux"}
    /\ cmds' = Append(cmds, CmdLsof)
    /\ IF execOut[CmdLsof].ok
       THEN /\ conns' = parseLsof(execOut[CmdLsof].val)
            /\ cpc' = "owner"
            /\ UNCHANGED <<cstatus, cresult>>
       ELSE CollectReject
    /\ UNCHANGED <<envVars, rawVars, scanVars, extVars>>

\* what getOwnerMap reads on the platform, and the command it runs
OwnerSource ==
    CASE platform = "win32" -> execOut[CmdWmi]
      [] platform = "linux" -> procFs
      [] platform = "darwin" -> execOut[CmdPs]
      [] OTHER -> Fail
OwnerCmds ==
    CASE platform = "win32" -> <<CmdWmi>>
      [] platform = "darwin" -> <<CmdPs>>
      [] OTHER -> <<>>

\* await getOwnerMap().catch(() => ({})); fill owner; normalize; return
CollectOwner ==
    /\ cpc = "owner"
    /\ cmds' = cmds \o OwnerCmds
    /\ LET p == CatchEmpty(getOwnerMap(platform, OwnerSource)) IN
       IF p.ok
       THEN LET joined == Join(conns, p.val, "owner")
                norm == normalize(joined)
            IN /\ conns' = joined
               /\ cresult' = [ok |-> TRUE, count |-> Len(norm),
                              connections |-> norm, platform |-> platform]
               /\ cstatus' = "resolved"
               /\ cpc' = "done"
       ELSE CollectReject
    /\ UNCHANGED <<envVars, rawVars, scanVars, extVars>>

\* getRawOSOutput: const { stdout } = await execPromise(cmd); return stdout,
\* outside any try block
RawReturn(cmd) ==
    /\ rcmds' = Append(rcmds, cmd)
    /\ rpc' = "done"
    /\ IF execOut[cmd].ok
       THEN rstatus' = "resolved" /\ rresult' = execOut[cmd].val
       ELSE rstatus' = "rejected" /\ UNCHANGED rresult

RawNetstat ==
    /\ rpc = "start"
    /\ platform = "win32"
    /\ RawReturn(CmdNetstat)
    /\ UNCHANGED <<envVars, collectVars, scanVars, extVars>>

\* linux: the try block: return the output of ss whenever ss succeeds
RawSS ==
    /\ rpc = "start"
    /\ platform = "linux"
    /\ rcmds' = Append(rcmds, CmdSS)
    /\ IF execOut[CmdSS].ok
       THEN /\ rstatus' = "resolved"
            /\ rresult' = execOut[CmdSS].val
            /\ rpc' = "done"
       ELSE /\ rpc' = "lsof"
            /\ UNCHANGED <<rstatus, rresult>>
    /\ UNCHANGED <<envVars, collectVars, scanVars, extVars>>

\* linux: the catch block
RawLsofFallback ==
    /\ rpc = "lsof"
    /\ RawReturn(CmdLsof)
    /\ UNCHANGED <<envVars, collectVars, scanVars, extVars>>

RawLsof ==
    /\ rpc = "start"
    /\ platform \notin {"win32", "linux"}
    /\ RawReturn(CmdLsof)
    /\ UNCHANGED <<envVars, collectVars, scanVars, extVars>>

NextCollect ==
    \/ CollectNetstat
    \/ CollectPidMap
    \/ CollectSS
    \/ CollectLsofFallback
    \/ CollectLsof
    \/ CollectOwner
    \/ RawNetstat
    \/ RawSS
    \/ RawLsofFallback
    \/ RawLsof

SpecCollect == InitCollect /\ [][NextCollect]_vars

\* A scan whose subprocesses write in chunks as large as the pipe lets them,
\* under the scheduling the event loop gives: what a subprocess has written
\* to its stdout is delivered to the 'data' handler.  Whether a subprocess
\* ends its output, fails to spawn, writes to its error stream or is
\* terminated is up to the subprocess: the code sets no timer and calls
\* kill() nowhere, so no action of the model ends a subprocess that hangs.
PsDataFull == PsData(Min(MaxChunk, Len(psText) - psPos))
NsDataFull == NsData(Min(MaxChunk, nsAvail - nsPos))
NextLive ==
    \/ PsDataFull
    \/ PsEnd
    \/ PsError
    \/ NsDataFull
    \/ NsEnd
    \/ NsError
    \/ \E buf \in StderrChunks : NsStderr(buf)
    \/ NsKill
\* the steps that deliver pending output, by what they do to the position in
\* the output
PsDelivered ==
    /\ phase = "tasklist"
    /\ psPos < Len(psText)
    /\ psPos' = psPos + Min(MaxChunk, Len(psText) - psPos)
NsDelivered ==
    /\ phase = "netstat"
    /\ nsOut = "open"
    /\ nsPos < nsAvail
    /\ nsPos' = nsPos + Min(MaxChunk, nsAvail - nsPos)
SpecLive ==
    /\ Init
    /\ [][NextLive]_vars
    /\ WF_psPos(PsDelivered)
    /\ WF_nsPos(NsDelivered)

\* a scan, or the two calls of the collector
(***************************************************************************)
(* The parsing functions called on their own                                *)
(***************************************************************************)
\* the largest number of lines of a text handed to a parser
MaxParseLines == 2

\* address tokens: empty, bare host, host:port, an empty, starred, lettered,
\* signed or out-of-range port text, '*:*', bracketed and unbracketed IPv6
AddrTokens ==
    {<<>>, <<"h">>, <<"h",":","8","0">>, <<"h",":","0">>, <<"h",":">>, <<"h",
        ":","*">>, <<"h",":","x">>,
     <<"h",":","+","5">>, <<"h",":","-","5">>, <<"h",":","9","9","9","9",
        "9">>, <<"*",":","*">>, <<"[",":",":","1","]",":","4","4","3">>,
     <<"[","h","]",":","5","3">>, <<"[","h","]",":","x">>, <<"[","h","]",
        ":">>, <<":",":","1">>, <<"a",":","b",":","8","0">>, <<"[","a","]",
        "b","]",":","5">>}

\* lines of netstat -ano: a TCP line per state word, English and French
StateWords ==
    {<<"L","I","S","T","E","N","I","N","G">>, <<"E","S","T","A","B","L","I",
        "S","H","E","D">>, <<"C","L","O","S","E","D">>, <<"É","C","O","U","T",
        "E">>, <<"E","C","O","U","T","E">>,
     <<"É","T","A","B","L","I","E">>, <<"E","T","A","B","L","I","E">>, <<"F",
        "E","R","M","É","E">>, <<"F","E","R","M","E","E">>}
WinTcpLine(state, pid) == <<" "," ","T","C","P"," "," "," "," ","h",":","8",
        "0"," "," "," ","r",":","0"," ">> \o state \o <<" "," ">> \o pid
WinStateLines == {WinTcpLine(w, <<"7">>) : w \in StateWords}
W_udp53 == <<"U","D","P"," ","h",":","5","3"," ","*",":","*"," ","9">>
W_tcpLower == <<"t","c","p"," ","[","h","]",":","5","3"," ","r",":","0"," ",
        "l","i","s","t","e","n","i","n","g"," ","7">>
W_tcpPid0 == <<"T","C","P"," ","h",":","8","0"," ","r",":","0"," ","L","I",
        "S","T","E","N","I","N","G"," ","0">>
W_tcpBigPort == <<"T","C","P"," ","h",":","9","9","9","9","9"," ","r",":","0",
        " ","L","I","S","T","E","N","I","N","G"," ","7">>
W_tcpNoPort == <<"T","C","P"," ","h",":"," ","r",":","*"," ","L","I","S","T",
        "E","N","I","N","G"," ","7">>
W_tcp4 == <<"T","C","P"," ","h",":","8","0"," ","r",":","0"," ","L","I","S",
        "T","E","N","I","N","G">>
W_udp3 == <<"U","D","P"," ","h",":","5","3"," ","*",":","*">>
W_tcp2 == <<"T","C","P"," ","h",":","8","0">>
W_hdrEn == <<"P","r","o","t","o"," "," ","L","o","c","a","l"," ","A","d","d",
        "r","e","s","s"," "," ","F","o","r","e","i","g","n"," ","A","d","d",
        "r","e","s","s"," "," ","S","t","a","t","e"," "," ","P","I","D">>
W_hdrFr == <<"P","r","o","t","o"," "," ","A","d","r","e","s","s","e"," ","l",
        "o","c","a","l","e"," "," ","A","d","r","e","s","s","e"," ","d","i",
        "s","t","a","n","t","e"," "," ","É","t","a","t">>
W_titleFr == <<"C","o","n","n","e","x","i","o","n","s"," ","a","c","t","i",
        "v","e","s">>
W_garbage == <<"x"," ","T","C","P"," ","y">>
WinShortLines == {W_tcp4, W_udp3, W_tcp2}
WinHeaderLines == {W_hdrEn, W_hdrFr, W_titleFr}
WinPool ==
    WinStateLines \cup WinShortLines \cup WinHeaderLines
    \cup {W_udp53, W_tcpLower, W_tcpPid0, W_tcpBigPort, W_tcpNoPort,
         W_garbage}

\* lines of ss -tunap
S_tcp == <<"t","c","p"," ","L","I","S","T","E","N"," ","0"," ","1","2","8",
        " ","h",":","8","0"," ","r",":","*"," ","u","s","e","r","s",":","(",
        "(","\"","s","v","\"",",","p","i","d","=","7",",","f","d","=","3",")",
        ")">>
S_udp == <<"u","d","p"," ","U","N","C","O","N","N"," ","0"," ","0"," ","h",
        ":","5","3"," ","*",":","*">>
S_hdr == <<"N","e","t","i","d"," ","S","t","a","t","e"," ","R","e","c","v",
        "-","Q"," ","S","e","n","d","-","Q"," ","L","o","c","a","l"," ","P",
        "e","e","r">>
S_big == <<"T","C","P"," ","E","S","T","A","B"," ","0"," ","0"," ","h",":",
        "8","0"," ","r",":","9","9","9","9","9">>
S_short == <<"t","c","p"," ","L","I","S","T","E","N"," ","0"," ","1","2","8",
        " ","h",":","8","0">>
S_garbage == <<"x"," ","t","c","p"," ","y">>
SSPool == {S_tcp, S_udp, S_hdr, S_big, S_short, S_garbage}

\* lines of lsof -nP -i
F_est == <<"s","v"," ","7"," ","u"," ","3","u"," ","I","P","v","4"," ","0",
        " ","0","t","0"," ","T","C","P"," ","h",":","8","0","-",">","r",":",
        "9"," ","(","E","S","T","A","B","L","I","S","H","E","D",")">>
F_listen == <<"s","v"," ","7"," ","u"," ","3","u"," ","I","P","v","4"," ","0",
        " ","0","t","0"," ","t","c","p"," ","h",":","8","0"," ","(","l","i",
        "s","t","e","n",")">>
F_udp == <<"s","v"," ","7"," ","u"," ","3","u"," ","I","P","v","4"," ","0",
        " ","0","t","0"," ","U","D","P"," ","h",":","5","3">>
F_noState == <<"s","v"," ","7"," ","u"," ","3","u"," ","I","P","v","4"," ",
        "0"," ","0","t","0"," ","T","C","P"," ","h",":","9","9","9","9","9">>
F_hdr == <<"C","O","M","M","A","N","D"," ","P","I","D"," ","U","S","E","R",
        " ","F","D"," ","T","Y","P","E"," ","D","E","V","I","C","E"," ","S",
        "I","Z","E","/","O","F","F"," ","N","O","D","E"," ","N","A","M","E">>
F_bare == <<" ","T","C","P">>
F_emptyState == <<"s","v"," ","7"," ","u"," ","3","u"," ","I","P","v","4"," ","0"," ","0","t","0"," ","T","C","P"," ","h",":","8","0"," ","(",")">>
F_cmdTcp == <<"T","C","P","d"," ","7"," ","u"," ","3","u"," ","I","P","v","4",
        " ","0"," ","0","t","0"," ","T","C","P"," ","h",":","8","0"," ","(",
        "L","I","S","T","E","N",")">>
LsofPool == {F_est, F_listen, F_udp, F_noState, F_hdr, F_bare, F_emptyState,
             F_cmdTcp}

\* the texts of at most n lines of a pool, each line ended by LF or each by
\* CRLF
RECURSIVE TextsOf(_, _, _)
TextsOf(pool, nl, n) ==
    IF n = 0 THEN {<<>>}
    ELSE {<<>>} \cup {l \o nl \o t : l \in pool, t \in TextsOf(pool, nl,
         n - 1)}
ParseTexts(pool) ==
    TextsOf(pool, LF, MaxParseLines) \cup TextsOf(pool, CRLF, MaxParseLines)

\* lines of netstat handed to the 'data' handler of scanPorts
ScanPool ==
    LinePool \cup WinShortLines
             \cup {W_udp53, W_tcpPid0, W_tcpBigPort, W_tcpNoPort, W_garbage,
                   W_hdrEn}
\* the entries pushed by the 'data' handler of scanPorts for one chunk of
\* complete lines, from the start of a scan with maxPort 1024 and an empty
\* pid map
ScanChunk(chunk) ==
    DataLines(Acc0, Front(SplitLines(chunk)), 1024, EmptyMap).entries

\* lines of an English netstat -ano listing
EnglishPool ==
    {WinTcpLine(<<"L","I","S","T","E","N","I","N","G">>, <<"7">>),
     WinTcpLine(<<"T","I","M","E","_","W","A","I","T">>, <<"0">>),
     W_udp53, W_tcpLower, W_hdrEn, W_ActiveConnections}
\* the list scanPorts resolves with for a listing delivered whole, maxPort
\* being 65535 and the pid map empty
ScanAll(text) ==
    SortEntries(EndLine(DataLines(Acc0, Front(SplitLines(text)), MaxPortLimit,
                                  EmptyMap),
                        Last(SplitLines(text)), MaxPortLimit, EmptyMap).entries)

InitParse ==
    /\ IdleScan
    /\ IdleCollect
    /\ IdlePair
    /\ pdone = FALSE
    /\ pout = <<>>
    /\ \/ pfn = "splitHostPort" /\ pin \in AddrTokens
       \/ pfn = "parseWindowsNetstat" /\ pin \in ParseTexts(WinPool)
       \/ pfn = "parseLinuxSS" /\ pin \in ParseTexts(SSPool)
       \/ pfn = "parseLsof" /\ pin \in ParseTexts(LsofPool)
       \/ pfn = "scanChunk" /\ pin \in ParseTexts(ScanPool) \ {<<>>}
       \/ pfn = "scanPorts" /\ pin \in ParseTexts(EnglishPool)

\* a call returns: pout holds the returned value
Return(fn, val) ==
    /\ pfn = fn
    /\ ~pdone
    /\ pdone' = TRUE
    /\ pout' = val
    /\ UNCHANGED <<pfn, pin, scanVars, colVars, pairVars>>
CallSplitHostPort == Return("splitHostPort", <<parsers_splitHostPort(pin)>>)
CallParseWindowsNetstat == Return("parseWindowsNetstat",
         parseWindowsNetstat(pin))
CallParseLinuxSS == Return("parseLinuxSS", parseLinuxSS(pin))
CallParseLsof == Return("parseLsof", parseLsof(pin))
CallScanChunk == Return("scanChunk", ScanChunk(pin))
CallScanPorts == Return("scanPorts", ScanAll(pin))

NextParse ==
    \/ CallSplitHostPort
    \/ CallParseWindowsNetstat
    \/ CallParseLinuxSS
    \/ CallParseLsof
    \/ CallScanChunk
    \/ CallScanPorts

SpecParse == InitParse /\ [][NextParse]_vars

(***************************************************************************)
(* Two invocations of scanPorts at the same time                            *)
(***************************************************************************)
Scans == {1, 2}
\* the size of the chunks of the two scans; what is left of an output may
\* also come as one chunk
PairChunk == 7
ChunkSizes(rest) == {Min(PairChunk, rest), rest} \ {0}

PairTexts == {L_tcp2000 \o LF \o L_udpStar \o LF \o L_tcp80,
              L_udp80 \o CRLF \o L_hdr \o LF}
\* the first scan is bounded by 1024, the second one has no usable bound
PairMaxPort(i) == IF i = 1 THEN ClampMaxPort(Num(1024)) ELSE ClampMaxPort(NaN)

\* the variables a handler registered by invocation i refers to: those
\* declared by that invocation (scanPorts declares entries, leftover,
\* parsedCount and estimateTotal inside the call, buildPidMapWindows its map
\* and leftover)
Closure_shared(i) == 1
Closure(i) == i

InitPair ==
    /\ IdleScan
    /\ IdleCollect
    /\ IdleParse
    /\ subproc \in [Scans -> {[phase |-> "tasklist", psText |-> Task1,
                               psPos |-> 0, psFailed |-> FALSE, nsText |-> t,
                               nsPos |-> 0, nsOut |-> "open",
                               stderrLeft |-> MaxStderr, failed |-> FALSE] :
                              t \in PairTexts}]
    /\ closure = [i \in Scans |-> [maxPort |-> PairMaxPort(i),
                                    psLeftover |-> <<>>, pidMap |-> EmptyMap,
                                    leftover |-> <<>>, acc |-> Acc0,
                                    promise |-> "pending", result |-> <<>>]]

\* ps.stdout 'data' of invocation i
PairPsData(i, k) ==
    /\ subproc[i].phase = "tasklist"
    /\ k \in ChunkSizes(Len(subproc[i].psText) - subproc[i].psPos)
    /\ closure' =
          [closure EXCEPT ![Closure(i)] =
              [@ EXCEPT !.psLeftover =
                            Last(SplitLines(@ \o SubSeq(subproc[i].psText,
                                 subproc[i].psPos + 1, subproc[i].psPos + k))),
                        !.pidMap =
                            TaskRows(@, Front(SplitLines(
                                 closure[Closure(i)].psLeftover
                                 \o SubSeq(subproc[i].psText,
                                    subproc[i].psPos + 1, subproc[i].psPos + k))))]]
    /\ subproc' = [subproc EXCEPT ![i].psPos = @ + k]
    /\ UNCHANGED <<scanVars, colVars, parseVars>>

\* ps.stdout 'end' of invocation i: flush, resolve(map), netstat is spawned
PairPsEnd(i) ==
    /\ subproc[i].phase = "tasklist"
    /\ subproc[i].psPos = Len(subproc[i].psText)
    /\ closure' =
          [closure EXCEPT ![Closure(i)].pidMap =
              IF Trim(closure[Closure(i)].psLeftover) # <<>>
              THEN TaskRow(@, Trim(closure[Closure(i)].psLeftover)) ELSE @]
    /\ subproc' = [subproc EXCEPT ![i].phase = "netstat"]
    /\ UNCHANGED <<scanVars, colVars, parseVars>>

\* ps 'error' of invocation i
PairPsError(i) ==
    /\ subproc[i].phase = "tasklist"
    /\ subproc[i].psPos = 0
    /\ subproc' = [subproc EXCEPT ![i].phase = "netstat", ![i].psFailed = TRUE]
    /\ UNCHANGED <<closure, scanVars, colVars, parseVars>>

\* ns.stdout 'data' of invocation i, on the variables c of its closure
PairParsed(c, lines) ==
    [c EXCEPT !.leftover = popLeftover(lines),
              !.acc = DataLines(@, Front(lines), c.maxPort, c.pidMap)]
PairNsData(i, k) ==
    /\ subproc[i].phase = "netstat"
    /\ subproc[i].nsOut = "open"
    /\ k \in ChunkSizes(Len(subproc[i].nsText) - subproc[i].nsPos)
    /\ closure' =
          [closure EXCEPT ![Closure(i)] =
              PairParsed(@, SplitLines(@.leftover
                               \o SubSeq(subproc[i].nsText, subproc[i].nsPos + 1,
                                         subproc[i].nsPos + k)))]
    /\ subproc' = [subproc EXCEPT ![i].nsPos = @ + k]
    /\ UNCHANGED <<scanVars, colVars, parseVars>>

\* ns.stdout 'end' of invocation i: st is the accumulators after the flush
\* and the final progress call
PairSorted(c, st, sorted) ==
    [c EXCEPT !.acc = [st EXCEPT !.entries = sorted],
              !.promise = IF @ = "pending" THEN "resolved" ELSE @,
              !.result = IF c.promise = "pending" THEN sorted ELSE @]
PairFlushed(c, st) == PairSorted(c, st, SortEntries(st.entries))
PairNsEnd(i) ==
    /\ subproc[i].phase = "netstat"
    /\ subproc[i].nsOut = "open"
    /\ subproc[i].nsPos = Len(subproc[i].nsText)
    /\ closure' =
          [closure EXCEPT ![Closure(i)] =
              PairFlushed(@, finalProgress(EndLine(@.acc, @.leftover,
                                                   @.maxPort, @.pidMap)))]
    /\ subproc' = [subproc EXCEPT ![i].nsOut = "ended"]
    /\ UNCHANGED <<scanVars, colVars, parseVars>>

\* reject(err) of invocation i
PairReject(i) ==
    closure' = [closure EXCEPT ![Closure(i)].promise =
                   IF @ = "pending" THEN "rejected" ELSE @]

\* ns 'error' of invocation i
PairNsError(i) ==
    /\ subproc[i].phase = "netstat"
    /\ subproc[i].nsOut = "open"
    /\ subproc[i].nsPos = 0
    /\ subproc[i].stderrLeft = MaxStderr
    /\ subproc' = [subproc EXCEPT ![i].nsOut = "failed", ![i].failed = TRUE]
    /\ PairReject(i)
    /\ UNCHANGED <<scanVars, colVars, parseVars>>

\* ns.stderr 'data' of invocation i
PairNsStderr(i, buf) ==
    /\ subproc[i].phase = "netstat"
    /\ subproc[i].nsOut \in {"open", "ended"}
    /\ subproc[i].stderrLeft > 0
    /\ subproc' = [subproc EXCEPT ![i].stderrLeft = @ - 1,
                                  ![i].failed = @ \/ Trim(buf) # <<>>]
    /\ IF Trim(buf) # <<>> THEN PairReject(i) ELSE UNCHANGED closure
    /\ UNCHANGED <<scanVars, colVars, parseVars>>

NextPair ==
    \E i \in Scans :
        \/ \E k \in 1..Len(subproc[i].psText) : PairPsData(i, k)
        \/ PairPsEnd(i)
        \/ PairPsError(i)
        \/ \E k \in 1..Len(subproc[i].nsText) : PairNsData(i, k)
        \/ PairNsEnd(i)
        \/ PairNsError(i)
        \/ \E buf \in StderrChunks : PairNsStderr(i, buf)

SpecPair == InitPair /\ [][NextPair]_vars

InitAll == Init \/ InitCollect
NextAll == Next \/ NextCollect
SpecAll == InitAll /\ [][NextAll]_vars

(***************************************************************************)
(* Properties of scanPorts                                                  *)
(***************************************************************************)

\* the scan of a text delivered as one single chunk followed by 'end'
WholeRun(text, mp, pm) ==
    LET lines == SplitLines(text)
        st == DataLines(Acc0, Front(lines), mp, pm)
        fin == finalProgress(EndLine(st, Last(lines), mp, pm))
    IN [entries |-> fin.entries,
        sorted |-> SortEntries(fin.entries),
        parsedCount |-> fin.parsedCount]

\* what netstat wrote before its stdout ended
Delivered == SubSeq(nsText, 1, nsAvail)

CE_C2_FailureRejects == failed => promise # "resolved"

\* C3: a scan never resolves with less than the complete snapshot of what the
\* command produces, in particular not when the subprocess is terminated
\* mid-stream.
CE_C3_NoPartialSnapshot ==
    promise = "resolved" => result = WholeRun(nsText, maxPort, pidMap).sorted

\* C4: current never decreases from one progress call to the next, and the
\* last call of a scan whose output has ended has current = total.
Thm_C4_ProgressMonotone ==
    /\ \A i \in 1..Len(acc.calls) : \A j \in i..Len(acc.calls) :
          acc.calls[i][1] <= acc.calls[j][1]
    /\ nsOut = "ended" =>
          /\ acc.calls # <<>>
          /\ Last(acc.calls)[1] = Last(acc.calls)[2]

\* a completed scan that reported 0 < 25 < 27 = total
Wit_C4_ProgressMonotone ==
    /\ nsOut = "ended"
    /\ Len(acc.calls) >= 2
    /\ acc.calls[1][1] = ProgressEvery
    /\ Last(acc.calls) = <<LongLines + 1, LongLines + 1>>

ProgressOf(msgs) == SelectSeq(msgs, LAMBDA m : m.type = "progress")
IsFinal(m) == m.type = "progress" /\ m.current = m.total

\* C5: the progress messages are written in the order of the progress calls,
\* no progress message follows the final one (current = total), and the
\* 'done' message comes right after the final one and is the last message.
Thm_C5_NotificationOrder ==
    /\ ProgressOf(sse) = ProgressMsgs(acc.calls)
    /\ \A i \in 1..Len(sse) : \A j \in (i+1)..Len(sse) :
          /\ IsFinal(sse[i]) => sse[j].type # "progress"
          /\ sse[i].type # "done"
    /\ \A i \in 1..Len(sse) :
          sse[i].type = "done" => i > 1 /\ IsFinal(sse[i-1])

\* a resolved scan: start, a progress message, the final one, done
Wit_C5_NotificationOrder ==
    /\ promise = "resolved"
    /\ Len(sse) >= 4
    /\ sse[2].type = "progress" /\ ~IsFinal(sse[2])
    /\ IsFinal(sse[Len(sse) - 1])
    /\ Last(sse).type = "done"

\* the local address token of a line and whether it carries a port: text
\* after its last colon that is a numeral ('' is read as the number 0)
LocalToken(line) ==
    LET parts == SplitWs(Trim(line)) IN
    IF Len(parts) >= 2 THEN parts[2] ELSE <<>>
PortAbsent(tok) ==
    \/ \A i \in 1..Len(tok) : tok[i] # ":"
    \/ \E i \in (LastIndexOf(tok, ":") + 1)..Len(tok) : ~IsDigit(tok[i])
LinesWithPort(text) ==
    LET ls == SplitLines(text) IN
    Cardinality({i \in 1..Len(ls) : ~PortAbsent(LocalToken(ls[i]))})

ProtoLeq(a, b) == a = b \/ (a = TCP /\ b = UDP)
Count(seq, x) == Cardinality({i \in 1..Len(seq) : seq[i] = x})
IsPermutation(a, b) ==
    /\ Len(a) = Len(b)
    /\ \A i \in 1..Len(a) : Count(a, a[i]) = Count(b, a[i])

\* C7: the resolved list is ordered by localPort, then by protocol name, and
\* holds exactly the records that were retained.
Thm_C7_Sorted ==
    promise = "resolved" =>
        /\ \A i \in 1..(Len(result) - 1) :
              \/ result[i].localPort.v < result[i+1].localPort.v
              \/ /\ result[i].localPort.v = result[i+1].localPort.v
                 /\ ProtoLeq(result[i].protocol, result[i+1].protocol)
        /\ IsPermutation(result, WholeRun(Delivered, maxPort, pidMap).entries)

\* 'UDP h:80' written before 'TCP h:80': the sort puts TCP first
Wit_C7_Sorted ==
    /\ promise = "resolved"
    /\ nsText = L_udp80 \o CRLF \o L_tcp80
    /\ Len(result) = 2
    /\ result[1].protocol = TCP /\ result[2].protocol = UDP

(***************************************************************************)
(* Properties of collectConnections and getRawOSOutput                      *)
(***************************************************************************)
\* the connection-listing commands among those run, in order
RECURSIVE ListingRun(_)
ListingRun(cs) ==
    IF cs = <<>> THEN <<>>
    ELSE (IF Head(cs) \in ListingCmds THEN <<Head(cs)>> ELSE <<>>)
         \o ListingRun(Tail(cs))

\* the records the extractor gives for the last listing command run
ParsedLast == ParserOf(Last(ListingRun(cmds)), execOut[Last(ListingRun(cmds))].val)

\* the records of a result are those of a parse, enrichment fields aside
SameListing(cs, parsed) ==
    /\ Len(cs) = Len(parsed)
    /\ \A i \in 1..Len(cs) :
          [cs[i] EXCEPT !.processName = Null, !.owner = Null]
          = [NormalizeRecord(parsed[i]) EXCEPT !.processName = Null, !.owner = Null]

\* C8: on win32 only netstat is run; on linux ss is run first and lsof if and
\* only if ss failed or parsed to zero records; elsewhere only lsof is run.
\* The result is built from the last command run, and the call rejects
\* exactly when that last command fails.
Thm_C8_Dispatch ==
    cpc # "idle" =>
        LET run == ListingRun(cmds)
            ssOut == execOut[CmdSS]
            ssUnusable == ~ssOut.ok \/ parseLinuxSS(ssOut.val) = <<>>
        IN /\ platform = "win32" =>
                 run = IF cpc = "start" THEN <<>> ELSE <<CmdNetstat>>
           /\ platform = "linux" =>
                 /\ cpc = "start" => run = <<>>
                 /\ cpc = "lsof" => run = <<CmdSS>> /\ ssUnusable
                 /\ cpc \in {"owner", "done"} =>
                       IF ssUnusable THEN run = <<CmdSS, CmdLsof>>
                       ELSE run = <<CmdSS>>
           /\ platform \notin {"win32", "linux"} =>
                 run = IF cpc = "start" THEN <<>> ELSE <<CmdLsof>>
           /\ cpc = "done" =>
                 /\ cstatus \in {"resolved", "rejected"}
                 /\ cstatus = "rejected" <=> ~execOut[Last(run)].ok
                 /\ cstatus = "resolved" =>
                       /\ SameListing(cresult.connections, ParsedLast)
                       /\ cresult.count = Len(ParsedLast)

\* on linux ss succeeded without any connection line, lsof was run after it
\* and the call resolved with the record lsof listed
Wit_C8_Dispatch ==
    /\ platform = "linux"
    /\ execOut[CmdSS].ok
    /\ ListingRun(cmds) = <<CmdSS, CmdLsof>>
    /\ cstatus = "resolved"
    /\ cresult.count = 1

\* C9: whatever the platform and the outcomes of the commands, the text
\* getRawOSOutput returns is the output of the command whose output
\* collectConnections parsed into its records.
CE_C9_SameDispatch ==
    (cstatus = "resolved" /\ rstatus = "resolved") =>
        /\ Last(rcmds) = Last(ListingRun(cmds))
        /\ rresult = execOut[Last(ListingRun(cmds))].val

\* the resolver of the platform failed: its command did not run or wrote
\* something that is not the table expected, or a file it reads could not be
\* read
PidMapFailed ==
    /\ platform = "win32"
    /\ ~execOut[CmdGetProcess].ok \/ execOut[CmdGetProcess].val = GetProcessBad
OwnerFailed ==
    CASE platform = "win32" -> ~execOut[CmdWmi].ok
      [] platform = "linux" -> ~procFs.passwd.ok \/ ~procFs.proc.ok \/ ~procFs.status.ok
      [] platform = "darwin" -> ~execOut[CmdPs].ok
      [] OTHER -> FALSE

\* tasklist could not be spawned: scanPorts went on without any of its output
TasklistFailed == phase = "netstat" /\ psPos = 0

\* C10: a resolver that fails yields an empty mapping and never rejects the
\* scan: collectConnections resolves whenever its listing command succeeded,
\* with every record of the listing, processName and owner being what the
\* extractor gave (null where it gave none); scanPorts goes on with an empty
\* map, every processName being '', and rejects only for netstat.
Thm_C10_EnrichmentFailClosed ==
    /\ cpc # "idle" =>
          /\ getWindowsPidMap(execOut[CmdGetProcess]).ok
          /\ getOwnerMap(platform, OwnerSource).ok
          /\ PidMapFailed => getWindowsPidMap(execOut[CmdGetProcess]).val = EmptyMap
          /\ OwnerFailed => getOwnerMap(platform, OwnerSource).val = EmptyMap
          /\ (cpc = "done" /\ execOut[Last(ListingRun(cmds))].ok) => cstatus = "resolved"
          /\ cstatus = "resolved" =>
                LET parsed == normalize(ParsedLast) IN
                /\ Len(cresult.connections) = Len(parsed)
                /\ \A i \in 1..Len(parsed) :
                      /\ PidMapFailed =>
                            /\ cresult.connections[i].processName = parsed[i].processName
                            /\ cresult.connections[i].processName = Null
                      /\ OwnerFailed =>
                            cresult.connections[i].owner = parsed[i].owner
    /\ TasklistFailed =>
          /\ pidMap = EmptyMap
          /\ promise = "rejected" => failed
          /\ promise = "resolved" =>
                /\ result = WholeRun(Delivered, maxPort, EmptyMap).sorted
                /\ \A i \in 1..Len(result) : result[i].processName = <<>>

\* on win32 both resolvers failed and the call resolved with the two records
\* netstat listed
Wit_C10_EnrichmentFailClosed ==
    /\ PidMapFailed
    /\ OwnerFailed
    /\ cstatus = "resolved"
    /\ cresult.count = 2
    /\ cresult.connections[1].pid = Num(900)

(***************************************************************************)
(* Termination                                                              *)
(***************************************************************************)
\* C11: every scan eventually settles: a subprocess that never ends its
\* output is terminated by a timeout, so the promise of scanPorts does not
\* stay pending forever.
CE_C11_EventuallySettles == <>(promise # "pending")

(***************************************************************************)
(* The Address Splitter and the records of the parsers                      *)
(***************************************************************************)
\* a port text that is a valid integer: one or more decimal digits
IsIntegerText(t) == t # <<>> /\ AllDigits(t)
\* '[addr]:port' with a non-empty addr and an integer port
IsBracketForm(tok) ==
    /\ Len(tok) >= 5
    /\ tok[1] = "["
    /\ Count(tok, "]") = 1
    /\ IndexOf(tok, "]") > 2
    /\ IndexOf(tok, "]") + 1 < Len(tok)
    /\ tok[IndexOf(tok, "]") + 1] = ":"
    /\ IsIntegerText(SubSeq(tok, IndexOf(tok, "]") + 2, Len(tok)))
\* what the contract of the Address Splitter gives for a token
SplitContract(tok) ==
    IF IsBracketForm(tok)
    THEN [host |-> Str(SubSeq(tok, 2, IndexOf(tok, "]") - 1)),
          port |-> Num(DecVal(SubSeq(tok, IndexOf(tok, "]") + 2, Len(tok))))]
    ELSE IF Count(tok, ":") = 1
    THEN [host |-> Str(SubSeq(tok, 1, IndexOf(tok, ":") - 1)),
          port |-> IF IsIntegerText(SubSeq(tok, IndexOf(tok, ":") + 1, Len(tok)))
                   THEN Num(DecVal(SubSeq(tok, IndexOf(tok, ":") + 1, Len(tok))))
                   ELSE Null]
    ELSE [host |-> Str(tok), port |-> Null]

\* C12: splitHostPort of lib/parsers.js follows the Address Splitter
\* contract: brackets give the address and the integer port, exactly one
\* colon gives the text before it and the integer after it, the port being
\* absent whenever the text after the colon is not a valid integer (empty,
\* '*', letters, signed), '*:*' gives host '*' without port, and every other
\* token is returned as the host without port.
CE_C12_SplitContract ==
    (pfn = "splitHostPort" /\ pdone) => pout = <<SplitContract(pin)>>

Parsers == {"parseWindowsNetstat", "parseLinuxSS", "parseLsof"}
\* a port that is absent (null, or NaN in the entries of scanPorts) or an
\* integer of the port range
PortInRange(p) == p \in {Null, NaN} \/ (IsFinite(p) /\ p.v \in 0..MaxPortLimit)

\* C13: in every record produced by parseWindowsNetstat, parseLinuxSS and
\* parseLsof, and in every entry retained by scanPorts, the local and the
\* remote port are each absent or an integer in [0, 65535], whatever the
\* input text is (out-of-range port text such as 'h:99999' included).
CE_C13_PortRange ==
    /\ (pfn \in Parsers /\ pdone) =>
          \A i \in 1..Len(pout) :
              PortInRange(pout[i].localPort) /\ PortInRange(pout[i].remotePort)
    /\ (pfn = "scanChunk" /\ pdone) =>
          \A i \in 1..Len(pout) :
              PortInRange(pout[i].localPort) /\ PortInRange(pout[i].foreignPort)

\* C14: every record returned by parseWindowsNetstat, parseLinuxSS and
\* parseLsof has protocol 'TCP' or 'UDP', and every record with protocol
\* 'TCP' has a non-empty state.
Thm_C14_ProtocolAndState ==
    (pfn \in Parsers /\ pdone) =>
        \A i \in 1..Len(pout) :
            /\ pout[i].protocol \in {Str(TCP), Str(UDP)}
            /\ pout[i].protocol = Str(TCP) =>
                  pout[i].state.k = "str" /\ pout[i].state.v # <<>>
\* lsof reported a TCP socket without a state, after another record
Wit_C14_ProtocolAndState ==
    /\ pfn = "parseLsof" /\ pdone
    /\ Len(pout) = 2
    /\ pin = F_udp \o LF \o F_emptyState \o LF
    /\ pout[2].protocol = Str(TCP)
    /\ pout[2].state = Str(W_UNKNOWN)

\* the English state word that stands for a French one
EnglishOf(w) ==
    CASE w \in {<<"É","C","O","U","T","E">>, <<"E","C","O","U","T","E">>} -> <<"L","I","S","T","E","N","I","N","G">>
      [] w \in {<<"É","T","A","B","L","I","E">>, <<"E","T","A","B","L","I","E">>} -> <<"E","S","T","A","B","L","I","S","H","E","D">>
      [] w \in {<<"F","E","R","M","É","E">>, <<"F","E","R","M","E","E">>} -> <<"C","L","O","S","E","D">>
      [] OTHER -> w

\* C15: a TCP line of netstat written with a French state word (ÉCOUTE,
\* ECOUTE, ÉTABLIE, ETABLIE, FERMÉE, FERMEE) gives the record of the line
\* with the English word in its place (LISTENING, ESTABLISHED, CLOSED), and
\* French header lines give no record.
CE_C15_LocaleNormalization ==
    (pfn = "parseWindowsNetstat" /\ pdone) =>
        /\ \A w \in StateWords :
              pin = WinTcpLine(w, <<"7">>) \o CRLF =>
                  pout = parseWindowsNetstat(WinTcpLine(EnglishOf(w), <<"7">>) \o CRLF)
        /\ pin \in {W_hdrFr \o CRLF, W_titleFr \o CRLF} => pout = <<>>

\* a field read as an integer, null when it is not one
IntegerOf(t) == IF IsIntegerText(t) THEN Num(DecVal(t)) ELSE Null
\* the record the positional mapping gives for the fields of one line
PositionalRecord(proto, local, remote, state, pid) ==
    [key |-> Str(JoinBar(<<proto, local, remote, pid>>)),
     protocol |-> Str(proto),
     localAddress |-> parsers_splitHostPort(local).host,
     localPort |-> parsers_splitHostPort(local).port,
     remoteAddress |-> parsers_splitHostPort(remote).host,
     remotePort |-> parsers_splitHostPort(remote).port,
     state |-> Str(state),
     pid |-> IntegerOf(pid),
     processName |-> Null, owner |-> Null]
PositionalFields(f) ==
    IF ToUpper(f[1]) = TCP /\ Len(f) >= 5
    THEN <<PositionalRecord(TCP, f[2], f[3], ToUpper(f[4]), f[5])>>
    ELSE IF ToUpper(f[1]) = UDP /\ Len(f) >= 4
    THEN <<PositionalRecord(UDP, f[2], f[3], W_UNSPECIFIED, f[4])>>
    ELSE <<>>
RECURSIVE PositionalLines(_)
PositionalLines(ls) ==
    IF ls = <<>> THEN <<>>
    ELSE PositionalFields(SplitWs(NormalizeLine(Head(ls))))
         \o PositionalLines(Tail(ls))

\* C16: parseWindowsNetstat maps the fields of each line by position after
\* collapsing white space: a TCP line of at least 5 fields gives one record
\* with local = field 2, remote = field 3, state = field 4 upper-cased and
\* pid = field 5 as an integer; a UDP line of at least 4 fields gives one
\* record with local = field 2, remote = field 3, pid = field 4 and state
\* 'UNSPECIFIED'; processName and owner are null; the records are in the
\* order of the lines.
CE_C16_PositionalMapping ==
    (pfn = "parseWindowsNetstat" /\ pdone) =>
        pout = PositionalLines(TrimmedLines(SplitLines(pin)))

(***************************************************************************)
(* Malformed and short lines                                                *)
(***************************************************************************)
\* the record shape of each listing: a netstat line has TCP first and at
\* least 5 fields or UDP first and at least 4; a line of ss starts with tcp
\* or udp and has at least 6 fields; a line of lsof holds a TCP or UDP token;
\* scanPorts looks at the lines that start with TCP or UDP and white space
NetstatShape(line) ==
    /\ Trim(line) # <<>>
    /\ \/ ToUpper(SplitWs(Trim(line))[1]) = TCP /\ Len(SplitWs(Trim(line))) >= 5
       \/ ToUpper(SplitWs(Trim(line))[1]) = UDP /\ Len(SplitWs(Trim(line))) >= 4
SSShape(line) ==
    /\ MatchAt(line, 1, W_tcp) \/ MatchAt(line, 1, W_udp)
    /\ Len(line) >= 4 /\ IsWs(line[4])
    /\ Len(SplitWs(Trim(line))) >= 6
LsofShape(line) == HasProtoWord(line)
ScanShape(line) == StartsProto(Trim(line))
HasShape(fn, line) ==
    CASE fn = "parseWindowsNetstat" -> NetstatShape(line)
      [] fn = "parseLinuxSS" -> SSShape(line)
      [] fn = "parseLsof" -> LsofShape(line)
      [] fn = "scanChunk" -> ScanShape(line)
\* the text made of the lines of ls that have the record shape
RECURSIVE ShapedText(_, _)
ShapedText(fn, ls) ==
    IF ls = <<>> THEN <<>>
    ELSE (IF HasShape(fn, Head(ls)) THEN Head(ls) \o LF ELSE <<>>)
         \o ShapedText(fn, Tail(ls))
\* what the function called returns for a text
Parsed(fn, text) ==
    CASE fn = "parseWindowsNetstat" -> parseWindowsNetstat(text)
      [] fn = "parseLinuxSS" -> parseLinuxSS(text)
      [] fn = "parseLsof" -> parseLsof(text)
      [] fn = "scanChunk" -> ScanChunk(text)

CE_C18_EstimateGrows ==
    \A i \in 1..(Len(acc.calls) - 1) : acc.calls[i][2] <= acc.calls[i+1][2]

(***************************************************************************)
(* Two scans at the same time                                               *)
(***************************************************************************)
\* the pid map invocation i builds from its own tasklist
PidMapAlone(i) ==
    IF subproc[i].psFailed THEN EmptyMap
    ELSE LET lines == SplitLines(subproc[i].psText)
             m == TaskRows(EmptyMap, Front(lines))
         IN IF Trim(Last(lines)) # <<>> THEN TaskRow(m, Trim(Last(lines))) ELSE m
\* the accumulators of invocation i at the end of its scan when it runs
\* alone and its output comes as one chunk: entries as pushed, progress calls
AloneRun(i) ==
    LET lines == SplitLines(subproc[i].nsText)
        st == DataLines(Acc0, Front(lines), closure[i].maxPort, PidMapAlone(i))
    IN finalProgress(EndLine(st, Last(lines), closure[i].maxPort, PidMapAlone(i)))

\* C19: two invocations of scanPorts whose chunk, end and error events
\* interleave in any order each resolve with the result and emit the progress
\* sequence they have when running alone, reject only on an error of their
\* own subprocess, and the leftover, counters, pid map and entries of an
\* invocation are untouched as long as none of its own events has come.
Thm_C19_ScansIndependent ==
    \A i \in Scans :
        /\ subproc[i].nsOut = "ended" =>
              /\ closure[i].acc.calls = AloneRun(i).calls
              /\ closure[i].acc.entries = SortEntries(AloneRun(i).entries)
              /\ closure[i].acc.parsedCount = AloneRun(i).parsedCount
        /\ closure[i].promise = "resolved" =>
              closure[i].result = SortEntries(AloneRun(i).entries)
        /\ closure[i].promise = "rejected" => subproc[i].failed
        /\ subproc[i].phase = "netstat" => closure[i].pidMap = PidMapAlone(i)
        /\ (subproc[i].phase = "tasklist" /\ subproc[i].psPos = 0) =>
              closure[i].pidMap = EmptyMap /\ closure[i].psLeftover = <<>>
        /\ (subproc[i].nsPos = 0 /\ subproc[i].nsOut = "open") =>
              closure[i].acc = Acc0 /\ closure[i].leftover = <<>>
\* the first scan has resolved with records while the second one, reading
\* another text, is in the middle of a line
Wit_C19_ScansIndependent ==
    /\ closure[1].promise = "resolved"
    /\ closure[1].result # <<>>
    /\ subproc[2].nsText # subproc[1].nsText
    /\ subproc[2].nsOut = "open"
    /\ subproc[2].nsPos > 0
    /\ closure[2].leftover # <<>>
    /\ closure[2].pidMap # closure[1].pidMap

(***************************************************************************)
(* Short lines                                                              *)
(***************************************************************************)
\* a line of netstat that starts with TCP and has fewer than 5 fields, or
\* starts with UDP and has fewer than 4
ShortLine(line) ==
    /\ Trim(line) # <<>>
    /\ \/ ToUpper(SplitWs(Trim(line))[1]) = TCP /\ Len(SplitWs(Trim(line))) < 5
       \/ ToUpper(SplitWs(Trim(line))[1]) = UDP /\ Len(SplitWs(Trim(line))) < 4

\* C20: short lines are skipped: a text made of TCP lines of fewer than 5
\* fields and UDP lines of fewer than 4 gives no record, in
\* parseWindowsNetstat and in the 'data' handler of scanPorts alike.
CE_C20_ShortLinesSkipped ==
    (/\ pfn \in {"parseWindowsNetstat", "scanChunk"}
     /\ pdone
     /\ \A i \in 1..(Len(SplitLines(pin)) - 1) : ShortLine(SplitLines(pin)[i]))
        => pout = <<>>

(***************************************************************************)
(* The messages of GET /scan                                                *)
(***************************************************************************)
IsTerminal(m) == m.type \in {"done", "error"}

\* C21: the data messages GET /scan hands to the response are 'start', then
\* 'progress' messages, then exactly one terminal message ('done' or
\* 'error'); no data message follows the terminal one (no 'progress' of a
\* scan whose promise has rejected) and the response is ended once, with the
\* terminal message.
CE_C21_MessageProtocol ==
    /\ sse # <<>> => sse[1].type = "start"
    /\ \A i \in 2..Len(sse) : sse[i].type # "start"
    /\ \A i \in 1..Len(sse) : IsTerminal(sse[i]) => i = Len(sse)
    /\ resEnded <= 1
    /\ resEnded = 1 <=> (sse # <<>> /\ IsTerminal(Last(sse)))

(***************************************************************************)
(* The owner resolver of Linux                                              *)
(***************************************************************************)
\* the real uid a status file reports: the digits after 'Uid:' and white
\* space on a line of its own, or <<>>
UidOfLine(line) ==
    IF LitAt(line, 1, <<"U","i","d",":">>) /\ Len(line) > 5 /\ IsWs(line[5])
    THEN DigitPrefix(TrimStart(SubSeq(line, 5, Len(line)))) ELSE <<>>
RECURSIVE UidOfLines(_)
UidOfLines(ls) ==
    IF ls = <<>> THEN <<>>
    ELSE IF UidOfLine(Head(ls)) # <<>> THEN UidOfLine(Head(ls))
    ELSE UidOfLines(Tail(ls))
ReportedUid(status) == UidOfLines(SplitLines(status))
\* the names N of the account lines 'N:...:U:...' for the uid text u
AccountNames(passwd, u) ==
    {SplitOn(l, <<":">>)[1] :
        l \in {SplitLines(passwd)[i] : i \in
                  {j \in 1..Len(SplitLines(passwd)) :
                      /\ Len(SplitOn(SplitLines(passwd)[j], <<":">>)) >= 3
                      /\ SplitOn(SplitLines(passwd)[j], <<":">>)[3] = u}}}

\* C22: on Linux, for every numeric entry P of the process filesystem whose
\* status file reports the real uid U on its 'Uid:' line and every account
\* line 'N:...:U:...', the mapping of the owner resolver contains P -> N,
\* the account lines being handled one per line.
CE_C22_LinuxOwners ==
    (/\ platform = "linux" /\ cstatus = "resolved"
     /\ procFs.passwd.ok /\ procFs.proc.ok /\ procFs.status.ok) =>
        \A n \in 1..Len(procFs.proc.val) :
            (/\ IsIntegerText(procFs.proc.val[n])
             /\ ReportedUid(procFs.status.val) # <<>>) =>
                \A name \in AccountNames(procFs.passwd.val,
                                         ReportedUid(procFs.status.val)) :
                    /\ DecVal(procFs.proc.val[n]) \in DOMAIN ownersLinux(procFs).val
                    /\ ownersLinux(procFs).val[DecVal(procFs.proc.val[n])] = Str(name)


(***************************************************************************)
(* Enrichment                                                               *)
(***************************************************************************)
\* the record with one field set from the map when its pid is a key of it
Enriched(c, map, field) ==
    IF c.pid # Null /\ c.pid.k = "num" /\ c.pid.v \in DOMAIN map
    THEN [c EXCEPT ![field] = map[c.pid.v]] ELSE c

\* the maps the two resolvers gave to collectConnections
PidMapUsed ==
    IF platform = "win32" THEN getWindowsPidMap(execOut[CmdGetProcess]).val
    ELSE EmptyMap
OwnerMapUsed == getOwnerMap(platform, OwnerSource).val

\* C23: enrichment in collectConnections is a field update keyed by pid:
\* after the process-name join (win32) the records are those of the
\* extractor, in the same order, processName being the mapped name where the
\* pid is a key of the map and every other field unchanged; the result is the
\* normalisation of those records with owner set in the same way, so a
\* record whose pid is in neither map keeps what the extractor gave it.
Thm_C23_EnrichmentJoin ==
    /\ (platform = "win32" /\ cpc = "owner") =>
          /\ Len(conns) = Len(ParsedLast)
          /\ \A i \in 1..Len(conns) :
                conns[i] = Enriched(ParsedLast[i], PidMapUsed, "processName")
    /\ cstatus = "resolved" =>
          /\ Len(cresult.connections) = Len(ParsedLast)
          /\ \A i \in 1..Len(ParsedLast) :
                cresult.connections[i] =
                    NormalizeRecord(Enriched(Enriched(ParsedLast[i], PidMapUsed,
                                                      "processName"),
                                             OwnerMapUsed, "owner"))

\* on win32 the call resolved with the first record named after the process
\* table and the owner left as netstat gave it
Wit_C23_EnrichmentJoin ==
    /\ platform = "win32"
    /\ cstatus = "resolved"
    /\ cresult.count = 2
    /\ cresult.connections[1].pid = Num(900)
    /\ cresult.connections[1].processName = Str(<<"s","v","c","h","o","s","t">>)
    /\ cresult.connections[2].processName = Str(<<"d","n","s">>)
    /\ cresult.connections[1].owner = Null


(***************************************************************************)
(* The state of UDP records                                                 *)
(***************************************************************************)
\* no line of the text carries a suffix in parentheses
NoStateSuffix(text) == \A j \in 1..Len(text) : text[j] # "("

\* C24: every record with protocol 'UDP' has state 'UNSPECIFIED', whether it
\* comes from parseWindowsNetstat, parseLinuxSS, parseLsof (lines without a
\* trailing state suffix) or scanPorts.
CE_C24_UdpUnspecified ==
    (/\ pdone
     /\ pfn \in Parsers \cup {"scanChunk"}
     /\ pfn = "parseLsof" => NoStateSuffix(pin)) =>
        \A i \in 1..Len(pout) :
            ToUpper(pout[i].protocol.v) = UDP => pout[i].state = Str(W_UNSPECIFIED)


(***************************************************************************)
(* The process id of a record                                               *)
(***************************************************************************)
\* the process-id field of the only line of a netstat text: the fifth field
\* of a TCP line, the fourth of a UDP line
PidField(text) ==
    LET f == SplitWs(NormalizeLine(Trim(SplitLines(text)[1]))) IN
    IF ToUpper(f[1]) = TCP THEN f[5] ELSE f[4]

\* C25: the pid of a record is null only when the line carried no numeric
\* process id: parseWindowsNetstat keeps every numeric pid of a line, 0
\* included, as that integer.
CE_C25_PidFidelity ==
    (/\ pfn = "parseWindowsNetstat" /\ pdone
     /\ Len(SplitLines(pin)) = 2
     /\ Len(pout) = 1
     /\ IsIntegerText(PidField(pin))) =>
        pout[1].pid = Num(DecVal(PidField(pin)))


(***************************************************************************)
(* Repeated lines                                                           *)
(***************************************************************************)
\* the value a record producer returns for a text
ApplyTo(fn, text) ==
    CASE fn = "parseWindowsNetstat" -> parseWindowsNetstat(text)
      [] fn = "parseLinuxSS" -> parseLinuxSS(text)
      [] fn = "parseLsof" -> parseLsof(text)
      [] fn = "scanChunk" -> ScanChunk(text)
\* n copies of a sequence, one after the other
RECURSIVE Copies(_, _)
Copies(seq, n) == IF n = 0 THEN <<>> ELSE seq \o Copies(seq, n - 1)
\* the text is the same line written several times
SameLineRepeated(text) ==
    LET ls == Front(SplitLines(text)) IN
    /\ Len(ls) >= 2
    /\ \A i \in 2..Len(ls) : ls[i] = ls[1]

\* C26: nothing is deduplicated: a text that is N times the same line gives
\* N times the records the line gives alone, so equal keys are neither
\* merged nor dropped, in the three extractors and in scanPorts.
Thm_C26_NoDeduplication ==
    (/\ pfn \in Parsers \cup {"scanChunk"}
     /\ pdone
     /\ SameLineRepeated(pin)) =>
        pout = Copies(ApplyTo(pfn, SplitLines(pin)[1] \o LF),
                      Len(SplitLines(pin)) - 1)

\* scanPorts was given the same UDP line twice and returned two equal
\* entries
Wit_C26_NoDeduplication ==
    /\ pfn = "scanChunk" /\ pdone
    /\ SameLineRepeated(pin)
    /\ Len(pout) = 2
    /\ pout[1] = pout[2]
    /\ pout[1].protocol = UDP


(***************************************************************************)
(* The defaults of parseLsof                                                *)
(***************************************************************************)
\* the index of the first field that is a TCP or UDP token, or 0
TokenField(f) ==
    IF \E k \in 1..Len(f) : ToUpper(f[k]) \in {TCP, UDP}
    THEN CHOOSE k \in 1..Len(f) :
            /\ ToUpper(f[k]) \in {TCP, UDP}
            /\ \A j \in 1..(k - 1) : ToUpper(f[j]) \notin {TCP, UDP}
    ELSE 0
\* a field of the form '(STATE)' with a non-empty STATE
IsStateField(t) == Len(t) >= 3 /\ t[1] = "(" /\ t[Len(t)] = ")"
\* a line of lsof: COMMAND PID USER and more fields, a TCP or UDP token, the
\* address part, and at most a '(STATE)' field after it
LsofListed(line) ==
    LET f == SplitWs(line) k == TokenField(f) IN
    /\ line # <<>> /\ ~IsWs(line[1])
    /\ Len(f) >= 5
    /\ IsIntegerText(f[2])
    /\ k >= 4
    /\ Len(f) \in {k + 1, k + 2}
    /\ Len(f) = k + 2 => IsStateField(f[k + 2])
\* the record the line gives, its key aside: f the fields, k the index of
\* the token, a the index of '->' in the address part
LsofExpectedAt(f, k, a) ==
    [protocol |-> Str(ToUpper(f[k])),
     localAddress |-> parsers_splitHostPort(
                          IF a = 0 THEN f[k + 1]
                          ELSE SubSeq(f[k + 1], 1, a - 1)).host,
     localPort |-> parsers_splitHostPort(
                          IF a = 0 THEN f[k + 1]
                          ELSE SubSeq(f[k + 1], 1, a - 1)).port,
     remoteAddress |-> IF a = 0 THEN Str(<<"*">>)
                       ELSE parsers_splitHostPort(
                                SubSeq(f[k + 1], a + 2, Len(f[k + 1]))).host,
     remotePort |-> IF a = 0 THEN Null
                    ELSE parsers_splitHostPort(
                             SubSeq(f[k + 1], a + 2, Len(f[k + 1]))).port,
     state |-> Str(IF Len(f) = k + 2
                   THEN ToUpper(SubSeq(f[k + 2], 2, Len(f[k + 2]) - 1))
                   ELSE IF ToUpper(f[k]) = UDP THEN W_UNSPECIFIED
                   ELSE W_UNKNOWN),
     pid |-> Num(DecVal(f[2])),
     processName |-> Str(f[1]),
     owner |-> Str(f[3])]
LsofExpected(line) ==
    LsofExpectedAt(SplitWs(line), TokenField(SplitWs(line)),
                   IndexOfSub(SplitWs(line)[TokenField(SplitWs(line)) + 1],
                              W_arrow))
\* a record without its key
Keyless(r) == [n \in DOMAIN r \ {"key"} |-> r[n]]

\* C27: for a line of lsof with a TCP or UDP token, parseLsof gives one
\* record: without '->' in the address part the local end is the whole part
\* and the remote end is '*:*' (remoteAddress '*', no remotePort); the state
\* is the upper-cased text of the trailing '(STATE)', or 'UNKNOWN' for TCP
\* and 'UNSPECIFIED' for UDP when there is none; processName, pid and owner
\* are the first three fields of the line.
CE_C27_LsofDefaults ==
    (/\ pfn = "parseLsof" /\ pdone
     /\ Len(SplitLines(pin)) = 2
     /\ LsofListed(SplitLines(pin)[1])) =>
        /\ Len(pout) = 1
        /\ Keyless(pout[1]) = LsofExpected(SplitLines(pin)[1])


(***************************************************************************)
(* The records of parseLinuxSS                                              *)
(***************************************************************************)
\* a header row: its first field is Netid and others follow
SSHeader(line) ==
    Len(SplitWs(line)) >= 2 /\ SplitWs(line)[1] = W_Netid
\* the field is users:(("name",pid=N,...))
IsUsersField(t) ==
    /\ Len(t) >= 18
    /\ SubSeq(t, 1, 9) = W_users \o <<"\"">>
    /\ SubSeq(t, Len(t) - 1, Len(t)) = <<")", ")">>
    /\ IndexOfSub(t, <<"\"", ",">> \o W_pidEq) > 10
\* a connection line: tcp|udp state recvq sendq local remote, and at most
\* the users field after them
SSListed(line) ==
    LET f == SplitWs(line) IN
    /\ Len(f) \in {6, 7}
    /\ ToUpper(f[1]) \in {TCP, UDP}
    /\ Len(f) = 7 => IsUsersField(f[7])
\* the record of the fields f of a connection line, its key aside; q is the
\* index of the quote that closes the name in the users field
SSExpectedAt(f, q) ==
    [protocol |-> Str(ToUpper(f[1])),
     localAddress |-> parsers_splitHostPort(f[5]).host,
     localPort |-> parsers_splitHostPort(f[5]).port,
     remoteAddress |-> parsers_splitHostPort(f[6]).host,
     remotePort |-> parsers_splitHostPort(f[6]).port,
     state |-> Str(ToUpper(f[2])),
     pid |-> IF Len(f) = 7
             THEN Num(DecVal(DigitPrefix(SubSeq(f[7], q + 6, Len(f[7])))))
             ELSE Null,
     processName |-> IF Len(f) = 7 THEN Str(SubSeq(f[7], 10, q - 1)) ELSE Null,
     owner |-> Null]
SSExpected(line) ==
    IF SSHeader(line) THEN <<>>
    ELSE <<SSExpectedAt(SplitWs(line),
                        IF Len(SplitWs(line)) = 7
                        THEN IndexOfSub(SplitWs(line)[7], <<"\"", ",">> \o W_pidEq)
                        ELSE 0)>>
RECURSIVE SSExpectedLines(_)
SSExpectedLines(ls) ==
    IF ls = <<>> THEN <<>>
    ELSE SSExpected(Head(ls)) \o SSExpectedLines(Tail(ls))
RECURSIVE KeylessAll(_)
KeylessAll(rs) ==
    IF rs = <<>> THEN <<>> ELSE <<Keyless(Head(rs))>> \o KeylessAll(Tail(rs))

\* C28: parseLinuxSS gives no record for a header row that starts with
\* Netid, and for a line 'tcp|udp state recvq sendq local remote' one record
\* with the protocol and the state upper-cased and the two addresses split;
\* with users:(("name",pid=N,...)) at the end of the line processName is name
\* and pid is N, without it both are null.
Thm_C28_LinuxSS ==
    (/\ pfn = "parseLinuxSS" /\ pdone
     /\ \A i \in 1..(Len(SplitLines(pin)) - 1) :
           SSHeader(SplitLines(pin)[i]) \/ SSListed(SplitLines(pin)[i])) =>
        KeylessAll(pout) = SSExpectedLines(Front(SplitLines(pin)))

\* a header row and a tcp line with its users field were parsed into the
\* one record of the line, named and numbered after the field
Wit_C28_LinuxSS ==
    /\ pfn = "parseLinuxSS" /\ pdone
    /\ pin = S_hdr \o LF \o S_tcp \o LF
    /\ Len(pout) = 1
    /\ pout[1].pid = Num(7)
    /\ pout[1].processName = Str(<<"s","v">>)
    /\ pout[1].state = Str(<<"L","I","S","T","E","N">>)


(***************************************************************************)
(* scanPorts and parseWindowsNetstat on the same listing                    *)
(***************************************************************************)
\* the records of a list that have a local port
RECURSIVE WithLocalPort(_)
WithLocalPort(rs) ==
    IF rs = <<>> THEN <<>>
    ELSE (IF Head(rs).localPort # Null THEN <<Head(rs)>> ELSE <<>>)
         \o WithLocalPort(Tail(rs))
\* the same port, or none on both sides
SamePort(a, b) == IF IsFinite(a) THEN a = b ELSE b = Null
\* an entry of scanPorts and a record of parseWindowsNetstat agree
Agree(e, r) ==
    /\ Str(e.protocol) = r.protocol
    /\ Str(e.localAddress) = r.localAddress
    /\ SamePort(e.localPort, r.localPort)
    /\ Str(e.foreignAddress) = r.remoteAddress
    /\ SamePort(e.foreignPort, r.remotePort)
    /\ e.pid = r.pid

\* C29: for an English netstat listing of one line, scanPorts with maxPort
\* 65535 returns an entry exactly when parseWindowsNetstat returns a record
\* with a local port, and the two agree on protocol, local host and port,
\* remote host and port, and pid.
CE_C29_SameClassification ==
    (pfn = "scanPorts" /\ pdone /\ Len(SplitLines(pin)) = 2) =>
        /\ Len(pout) = Len(WithLocalPort(parseWindowsNetstat(pin)))
        /\ \A i \in 1..Len(pout) :
              Agree(pout[i], WithLocalPort(parseWindowsNetstat(pin))[i])


(***************************************************************************)
(* Progress and completion                                                  *)
(***************************************************************************)
\* a line that scanPorts parses: it starts with TCP and has at least 5
\* fields, or it starts with UDP
IsParsedLine(raw) ==
    /\ StartsProto(Trim(raw))
    /\ \/ ToUpper(SubSeq(Trim(raw), 1, 3)) = UDP
       \/ Len(SplitWs(Trim(raw))) >= 5
ParsedLineCount(lines) ==
    Cardinality({i \in 1..Len(lines) : IsParsedLine(lines[i])})
\* the output read so far
ReadSoFar == SubSeq(nsText, 1, nsPos)

\* C30: a progress call made while the output is being read has total >
\* current; current is the number of TCP/UDP lines parsed at that time, which
\* is never less than the number of entries retained; current = total holds
\* only for the one final call, made when the output has ended.
Thm_C30_CompletionDistinct ==
    /\ \A i \in 1..Len(acc.calls) :
          /\ (nsOut # "ended" \/ i < Len(acc.calls)) =>
                /\ acc.calls[i][2] > acc.calls[i][1]
                /\ acc.calls[i][1] <= ParsedLineCount(Front(SplitLines(ReadSoFar)))
          /\ acc.calls[i][1] = acc.calls[i][2] =>
                nsOut = "ended" /\ i = Len(acc.calls)
    /\ nsOut # "ended" =>
          /\ acc.parsedCount = ParsedLineCount(Front(SplitLines(ReadSoFar)))
          /\ Len(acc.entries) <= acc.parsedCount
    /\ nsOut = "ended" =>
          /\ acc.calls # <<>>
          /\ Last(acc.calls)[1] = ParsedLineCount(SplitLines(ReadSoFar))
          /\ Last(acc.calls)[2] = Last(acc.calls)[1]
          /\ Len(acc.entries) <= Last(acc.calls)[1]

\* the output is still being read: the last call reported 25 of 200 lines
\* and fewer entries than that are retained
Wit_C30_CompletionDistinct ==
    /\ nsOut = "open"
    /\ acc.calls # <<>>
    /\ Last(acc.calls) = <<ProgressEvery, InitialEstimate>>
    /\ Len(acc.entries) < ProgressEvery

=============================================================================
